---- MODULE Spec2Model ----
(***************************************************************************)
(* Frame scheduler of engine::Engine (src/src/engine/engine/Engine.cpp).   *)
(*                                                                         *)
(* One CPU thread runs the loop of main.cpp: resizeExtent, then drawFrame. *)
(* drawFrame is cut at its blocking calls and at the calls that hand work  *)
(* to the device; pc is the position of the thread.  The device runs       *)
(* concurrently: the presentation engine signals the image-available       *)
(* semaphore, the queue executes submissions and presents when their wait  *)
(* semaphores are signaled, and completion signals semaphores and fences.  *)
(***************************************************************************)
EXTENDS Integers, Sequences, FiniteSets, TLC

\* Engine.hpp:65
MAX_FRAMES_IN_FLIGHT == 2

\* Bounds of the model.
MinImages == 2
MaxImages == 3
MaxCalls == 3
MaxExtent == 2
MaxDevices == 2
MaxFamilies == 3

Slots == 0 .. (MAX_FRAMES_IN_FLIGHT - 1)
ImageCounts == MinImages .. MaxImages
Extents == (1 .. MaxExtent) \X (1 .. MaxExtent)

VK_SUCCESS == "VK_SUCCESS"
VK_SUBOPTIMAL_KHR == "VK_SUBOPTIMAL_KHR"
VK_ERROR_OUT_OF_DATE_KHR == "VK_ERROR_OUT_OF_DATE_KHR"
VK_ERROR_SURFACE_LOST_KHR == "VK_ERROR_SURFACE_LOST_KHR"
\* Results vkAcquireNextImageKHR and vkQueuePresentKHR can return; the last
\* one stands for every result the code treats as "anything else".
SurfaceResults ==
    {VK_SUCCESS, VK_SUBOPTIMAL_KHR, VK_ERROR_OUT_OF_DATE_KHR, VK_ERROR_SURFACE_LOST_KHR}
NoResult == "none"

VARIABLES
    pc,                          \* position of the CPU thread
    m_currentFrame,              \* Engine.hpp:108
    m_framebufferResize,         \* Engine.hpp:123
    m_windowExtent,              \* Engine.hpp:88
    modelModified,               \* m_applicationChanges.modelModified
    m_inFlightFences,            \* slot -> signaled
    m_imageAvailableSemaphore,   \* slot -> signaled
    m_renderFinishedSemaphore,   \* slot -> signaled
    m_swapchainData,             \* sizes of images, imageViews, framebuffers
    m_commandBuffers,            \* image index -> "allocated" | "recorded"
    m_commandBufferSecondary,    \* image index -> "allocated" | "recorded"
    m_uniformBuffers,            \* number of per-image uniform buffers
    imageIndex,                  \* local of drawFrame
    acquireResult,               \* result of vkAcquireNextImageKHR in this call
    submitResult,                \* result of vkQueueSubmit in this call
    presentResult,               \* result of vkQueuePresentKHR in this call
    queue,                       \* operations outstanding on m_presentQueue
    acquirePending,              \* slots whose image-available signal is owed
    imageReady,                  \* slot -> the acquired image has been released to us
    rendered,                    \* slot -> the slot's submission has completed
    trace,                       \* steps taken by the current drawFrame call
    calls,                       \* number of drawFrame calls started
    entryFrame,                  \* m_currentFrame when the call was entered
    entryResize,                 \* m_framebufferResize when the call was entered
    slotCmd,                     \* slot -> image index of the buffer it uses, or -1
    touch,                       \* the last recording or freeing of command buffers
    m_isCleaned,                 \* Engine.hpp:124
    m_indices,                   \* Engine.hpp, queue families of the selected device
    teardown,                    \* calls made by the last rebuild or cleanup
    deviceCount,                 \* number of physical devices enumerated
    deviceIndex,                 \* number of devices the selection loop has taken
    device,                      \* the device isDeviceSuitable is looking at
    suitIndices,                 \* `indices`, local of isDeviceSuitable (Engine.cpp:1512)
    m_physicalDevice,            \* position of the selected device, Engine.hpp
    passedOver,                  \* a device with all five properties was skipped
    applied,                     \* the last swapchain choice: function, input, result
    m_graphicsQueue,             \* Engine.hpp:84
    m_presentQueue,              \* Engine.hpp:85
    m_transfertQueue,            \* Engine.hpp:86
    m_commandPool,               \* Engine.hpp:99
    m_commandPoolTransfert,      \* Engine.hpp:100
    m_mesh,                      \* Engine.hpp:135, vertices and faces
    m_meshData,                  \* Engine.hpp:55-61, the device-local buffers
    stagingBuffer,               \* local of createVertexBuffer / createVertexIndexBuffer
    copy,                        \* the copy handed to a queue by copyBuffer
    steps,                       \* calls made by the operation in progress
    m_resources,                 \* MemoryPool.hpp:75, the resources of a memory pool
    m_size                       \* MemoryPool.hpp:76, the size of the pool

engineVars == <<m_currentFrame, m_framebufferResize, m_windowExtent, modelModified>>
syncVars == <<m_inFlightFences, m_imageAvailableSemaphore, m_renderFinishedSemaphore>>
swapVars == <<m_swapchainData, m_commandBuffers, m_commandBufferSecondary, m_uniformBuffers>>
localVars == <<imageIndex, acquireResult, submitResult, presentResult>>
gpuVars == <<queue, acquirePending, imageReady, rendered>>
callVars == <<trace, calls, entryFrame, entryResize>>
ghostVars == <<slotCmd, touch>>
selVars == <<deviceCount, deviceIndex, device, suitIndices, m_physicalDevice, passedOver>>
queueVars == <<m_graphicsQueue, m_presentQueue, m_transfertQueue>>
poolVars == <<m_commandPool, m_commandPoolTransfert>>
uploadVars == <<m_mesh, m_meshData, stagingBuffer, copy, steps>>
memoryPoolVars == <<m_resources, m_size>>
setupVars == <<applied, poolVars, uploadVars, memoryPoolVars>>
lifeVars == <<m_isCleaned, m_indices, selVars, setupVars, queueVars>>
vars == <<pc, engineVars, syncVars, swapVars, localVars, gpuVars, callVars, ghostVars,
          lifeVars, teardown>>

-----------------------------------------------------------------------------
\* Helpers over the state.

Submissions == {op \in queue : op.kind = "submit"}

\* Command buffers a pending submission refers to: the primary of the image
\* and, through vkCmdExecuteCommands, the secondary of the same index.
BuffersOf(i) == {<<"primary", i>>, <<"secondary", i>>}
InUse == UNION {BuffersOf(op.cb) : op \in Submissions}
AllBuffers ==
    {<<"primary", i>> : i \in DOMAIN m_commandBuffers}
        \cup {<<"secondary", i>> : i \in DOMAIN m_commandBufferSecondary}
PrimaryBuffers == {<<"primary", i>> : i \in DOMAIN m_commandBuffers}

\* What is recorded about one recording or freeing of the buffers `bufs`.
TouchOf(kind, bufs) ==
    [kind |-> kind,
     bufs |-> bufs,
     inUse |-> InUse,
     lowFence |-> {s \in Slots : /\ BuffersOf(slotCmd[s]) \cap bufs # {}
                                 /\ ~m_inFlightFences[s]},
     armed |-> {op.fence : op \in Submissions}]

NoTouch == [kind |-> "none", bufs |-> {}, inUse |-> {}, lowFence |-> {}, armed |-> {}]

SemSignaled(id) ==
    IF id[1] = "imageAvailable" THEN m_imageAvailableSemaphore[id[2]]
    ELSE m_renderFinishedSemaphore[id[2]]

\* vkDeviceWaitIdle / vkQueueWaitIdle return when nothing is outstanding.
DeviceIdle == queue = {}

Count(seq, x) == Cardinality({i \in DOMAIN seq : seq[i] = x})

-----------------------------------------------------------------------------
\* Queue family mapping (PhysicalDeviceProperties.hpp:8-23); -1 is "not found".

\* No physical device.
NoDevice == "VK_NULL_HANDLE"

\* A default-constructed QueueFamilyIndices.
NoIndices == [graphicsFamily |-> -1, presentingFamily |-> -1, transferFamily |-> -1]

isComplete(indices) ==
    indices.graphicsFamily >= 0 /\ indices.presentingFamily >= 0

transferAvailable(indices) ==
    indices.transferFamily >= 0 /\ indices.transferFamily # indices.graphicsFamily

\* Mappings the frame loop is explored with: a device without and a device
\* with a transfer family distinct from the graphics family.
InitIndices ==
    {[graphicsFamily |-> 0, presentingFamily |-> 0, transferFamily |-> t] : t \in {-1, 1}}

\* Engine.hpp:19-23, a build with validation layers.
ENABLE_VALIDATION_LAYERS == TRUE

-----------------------------------------------------------------------------
\* Creation and destruction calls, by kind of object, in the order the code
\* issues them.  Descriptor sets are owned by m_descriptorPool and have no
\* destruction call of their own.

Wait == <<"wait", "device">>
Create(object) == <<"create", object>>
Destroy(object) == <<"destroy", object>>
When(cond, events) == IF cond THEN events ELSE <<>>

\* What each kind of object is created from: the handles passed to its
\* creation call.
CreatedFrom ==
    {<<"m_debugMessenger", "m_instance">>,
     <<"m_surface", "m_instance">>,
     <<"m_logicalDevice", "m_instance">>,
     <<"swapchain", "m_surface">>,
     <<"imageViews", "swapchain">>,
     <<"m_pipelineLayout", "m_descriptorSetLayout">>,
     <<"m_graphicsPipeline", "m_pipelineLayout">>,
     <<"m_graphicsPipeline", "m_renderPass">>,
     <<"framebuffers", "m_renderPass">>,
     <<"framebuffers", "imageViews">>,
     <<"framebuffers", "depth">>,
     <<"framebuffers", "color">>,
     <<"m_commandBuffers", "m_commandPool">>,
     <<"m_commandBufferSecondary", "m_commandPool">>}

\* createInstance (lines 196-249) and the surface main.cpp creates (line 42).
createInstance ==
    <<Create("m_instance")>>
        \o When(ENABLE_VALIDATION_LAYERS, <<Create("m_debugMessenger")>>)
        \o <<Create("m_surface")>>

initVulkan_WithTexture(indices) ==
    <<Create("m_logicalDevice"), Create("swapchain"), Create("imageViews"),
      Create("m_renderPass"), Create("m_descriptorSetLayout"),
      Create("m_pipelineLayout"), Create("m_graphicsPipeline"),
      Create("m_commandPool")>>
        \o When(transferAvailable(indices), <<Create("m_commandPoolTransfert")>>)
        \o <<Create("depth"), Create("color"), Create("framebuffers"),
             Create("m_lenaTexture"),
             Create("m_vertexBuffer"), Create("m_indexBuffer"),
             Create("m_uniformBuffers"), Create("m_descriptorPool"),
             Create("m_commandBuffers"), Create("m_commandBufferSecondary"),
             Create("syncObjects"), Create("m_imguiDescriptorPool")>>

\* initVulkan (lines 137-161).
initVulkan(indices) ==
    <<Create("m_logicalDevice"), Create("swapchain"), Create("imageViews"),
      Create("m_renderPass"), Create("m_descriptorSetLayout"),
      Create("m_pipelineLayout"), Create("m_graphicsPipeline"),
      Create("m_commandPool")>>
        \o When(transferAvailable(indices), <<Create("m_commandPoolTransfert")>>)
        \o <<Create("depth"), Create("color"), Create("framebuffers"),
             Create("m_vertexBuffer"), Create("m_indexBuffer"),
             Create("m_uniformBuffers"), Create("m_descriptorPool"),
             Create("m_commandBuffers"), Create("m_commandBufferSecondary"),
             Create("syncObjects"), Create("m_imguiDescriptorPool")>>

cleanUpSwapChain_PassBeforePipeline ==
    <<Destroy("framebuffers"), Destroy("m_commandBufferSecondary"),
      Destroy("m_commandBuffers"), Destroy("depth"), Destroy("color"),
      Destroy("m_renderPass"), Destroy("m_graphicsPipeline"),
      Destroy("m_pipelineLayout"), Destroy("imageViews"), Destroy("swapchain")>>

\* cleanUpSwapChain (lines 1349-1378).
cleanUpSwapChain ==
    <<Destroy("framebuffers"), Destroy("m_commandBufferSecondary"),
      Destroy("m_commandBuffers"), Destroy("depth"), Destroy("color"),
      Destroy("m_graphicsPipeline"), Destroy("m_pipelineLayout"),
      Destroy("m_renderPass"), Destroy("imageViews"), Destroy("swapchain")>>

\* The create* calls of recreateSwapChain (lines 1338-1346).
RecreateSwapChainCreates ==
    <<Create("swapchain"), Create("imageViews"), Create("m_renderPass"),
      Create("m_pipelineLayout"), Create("m_graphicsPipeline"), Create("depth"),
      Create("color"), Create("framebuffers"), Create("m_commandBuffers"),
      Create("m_commandBufferSecondary")>>

\* The calls of recreateCommandBuffer after its wait (lines 884-891).
RecreateCommandBufferCalls ==
    <<Destroy("m_commandBuffers"), Destroy("m_commandBufferSecondary"),
      Create("m_commandBuffers"), Create("m_commandBufferSecondary")>>

CleanupCalls_PoolAfterDevice(indices) ==
    cleanUpSwapChain
        \o <<Destroy("m_descriptorPool"), Destroy("m_imguiDescriptorPool"),
             Destroy("m_descriptorSetLayout"), Destroy("m_uniformBuffers"),
             Destroy("m_vertexBuffer"), Destroy("m_indexBuffer"),
             Destroy("syncObjects"), Destroy("m_logicalDevice"),
             Destroy("m_commandPool")>>
        \o When(transferAvailable(indices), <<Destroy("m_commandPoolTransfert")>>)
        \o <<Destroy("m_surface")>>
        \o When(ENABLE_VALIDATION_LAYERS, <<Destroy("m_debugMessenger")>>)
        \o <<Destroy("m_instance")>>

\* The calls of cleanup inside its guard (lines 1384-1431).
CleanupCalls(indices) ==
    cleanUpSwapChain
        \o <<Destroy("m_descriptorPool"), Destroy("m_imguiDescriptorPool"),
             Destroy("m_descriptorSetLayout"), Destroy("m_uniformBuffers"),
             Destroy("m_vertexBuffer"), Destroy("m_indexBuffer"),
             Destroy("syncObjects"), Destroy("m_commandPool")>>
        \o When(transferAvailable(indices), <<Destroy("m_commandPoolTransfert")>>)
        \o <<Destroy("m_logicalDevice"), Destroy("m_surface")>>
        \o When(ENABLE_VALIDATION_LAYERS, <<Destroy("m_debugMessenger")>>)
        \o <<Destroy("m_instance")>>

\* What is recorded about one rebuild or cleanup: the operation, the calls
\* it made in order, whether GPU work was outstanding when it started, and
\* the image count the uniform-buffer loop of cleanup ran over.
TeardownOf(op, events) ==
    [op |-> op, events |-> events, busy |-> queue # {},
     images |-> IF op = "cleanup" THEN m_swapchainData.images ELSE 0]

NoTeardown == [op |-> "none", events |-> <<>>, busy |-> FALSE, images |-> 0]

\* No swapchain parameter has been chosen.
NoChoice == [function |-> "none", input |-> <<>>, result |-> <<>>]

-----------------------------------------------------------------------------
\* Queues, command pools and the buffers of the mesh.

VK_NULL_HANDLE == "VK_NULL_HANDLE"

\* A handle member nothing has been stored in: the members of Engine.hpp
\* lines 55-61, 84-86 and 99-100 have no initialiser.
Indeterminate == "indeterminate"

\* vkGetDeviceQueue (lines 371-373): queue 0 of the family.  For the family
\* -1 the call is not valid and the record stands for whatever it stores.
GetDeviceQueue(queueFamilyIndex) == [family |-> queueFamilyIndex]

\* vkCreateCommandPool (lines 765-775): a pool of the family.
CommandPool(queueFamilyIndex) == [queueFamilyIndex |-> queueFamilyIndex]

\* Engine::getGraphicsQueue (lines 177-180).
getGraphicsQueue == m_graphicsQueue

\* Engine::getCommandPool (lines 191-194).
getCommandPool == m_commandPool

\* Engine::getTransfertQueue (lines 168-175).
getTransfertQueue ==
    IF transferAvailable(m_indices) THEN m_transfertQueue ELSE getGraphicsQueue

getCommandPoolTransfer_AlwaysGraphics == getCommandPool

\* Engine::getCommandPoolTransfer (lines 182-189).
getCommandPoolTransfer ==
    IF transferAvailable(m_indices) THEN m_commandPoolTransfert ELSE getCommandPool

\* Memory is kept as 4-byte words, the size of a float and of an index:
\* every size and offset of the upload is a multiple of it.
sizeofWord == 4

\* sizeof(m_mesh.vertices[0]) in bytes: position, normal, uv, tangent and
\* bitangent (DataIO.cpp:81-109), fourteen floats.
sizeofVertex == 56

\* sizeof(uint32_t), the type of an index (line 1155, VK_INDEX_TYPE_UINT32).
sizeofIndex == 4

\* sizeof(m_mesh.faces[0]): a face is a triple of indices.
sizeofFace == 3 * sizeofIndex

\* Values a vertex takes here.
VertexValues == {"a", "b"}

\* A word of memory nothing has written yet.
Undefined == <<"?", 0>>

\* The words of one vertex: float k of the value v.
WordsOfVertex(v) == [k \in 1 .. (sizeofVertex \div sizeofWord) |-> <<v, k>>]

RECURSIVE VertexBytes(_)
\* The memory behind m_mesh.vertices.data().
VertexBytes(vertices) ==
    IF vertices = <<>> THEN <<>>
    ELSE WordsOfVertex(Head(vertices)) \o VertexBytes(Tail(vertices))

RECURSIVE FaceBytes(_)
\* The memory behind m_mesh.faces.data(): three indices a face, a word each.
FaceBytes(faces) ==
    IF faces = <<>> THEN <<>>
    ELSE [k \in 1 .. 3 |-> <<"index", Head(faces)[k]>>] \o FaceBytes(Tail(faces))

\* The mesh the constructor has loaded (Engine.cpp:39-44) where the mesh
\* is not the subject: one triangle.
LoadedMesh == [vertices |-> <<"a">>, faces |-> << <<0, 0, 0>> >>]

\* A buffer of the device holding the words: its size is in bytes.
DeviceLocal(words) == [size |-> sizeofWord * Len(words), data |-> words]

\* No copy has been handed to a queue.
NoCopy == [dstBuffer |-> "none", pending |-> FALSE]

-----------------------------------------------------------------------------
\* State after createInstance and initVulkan (Engine.cpp:137-161).

Init ==
    /\ pc = "idle"
    /\ m_currentFrame = 0
    /\ m_framebufferResize = FALSE
    /\ m_windowExtent \in Extents          \* never initialised by the constructor
    /\ modelModified = FALSE
    /\ m_inFlightFences = [s \in Slots |-> TRUE]
    /\ m_imageAvailableSemaphore = [s \in Slots |-> FALSE]
    /\ m_renderFinishedSemaphore = [s \in Slots |-> FALSE]
    /\ \E n \in ImageCounts :
          /\ m_swapchainData = [images |-> n, imageViews |-> n, framebuffers |-> n]
          /\ m_commandBuffers = [i \in 0 .. (n - 1) |-> "allocated"]
          /\ m_commandBufferSecondary = [i \in 0 .. (n - 1) |-> "recorded"]
          /\ m_uniformBuffers = n
    /\ imageIndex = 0
    /\ acquireResult = NoResult
    /\ submitResult = NoResult
    /\ presentResult = NoResult
    /\ queue = {}
    /\ acquirePending = {}
    /\ imageReady = [s \in Slots |-> FALSE]
    /\ rendered = [s \in Slots |-> FALSE]
    /\ trace = <<>>
    /\ calls = 0
    /\ entryFrame = 0
    /\ entryResize = FALSE
    /\ slotCmd = [s \in Slots |-> -1]
    /\ touch = NoTouch
    /\ m_isCleaned = FALSE                 \* createInstance, line 198
    /\ m_indices \in InitIndices
    /\ teardown = NoTeardown
    /\ deviceCount = 1                     \* the selection is over
    /\ deviceIndex = 1
    /\ device = NoDevice
    /\ suitIndices = NoIndices
    /\ m_physicalDevice = 1
    /\ passedOver = FALSE
    /\ applied = NoChoice
    /\ m_graphicsQueue = GetDeviceQueue(m_indices.graphicsFamily)
    /\ m_presentQueue = GetDeviceQueue(m_indices.presentingFamily)
    /\ m_transfertQueue = GetDeviceQueue(m_indices.transferFamily)
    /\ m_commandPool = CommandPool(m_indices.graphicsFamily)
    /\ m_commandPoolTransfert =
         IF transferAvailable(m_indices)
           THEN CommandPool(m_indices.transferFamily) ELSE Indeterminate
    /\ m_mesh = LoadedMesh
    /\ m_meshData = [vertexBuffer |-> DeviceLocal(VertexBytes(LoadedMesh.vertices)),
                     indexBuffer |-> DeviceLocal(FaceBytes(LoadedMesh.faces))]
    /\ stagingBuffer = VK_NULL_HANDLE
    /\ copy = NoCopy
    /\ steps = <<>>
    /\ m_resources = {}
    /\ m_size = 0

-----------------------------------------------------------------------------
\* Command buffers and swapchain.

CreateCommandBuffers_OneShort(n) ==
    /\ m_commandBuffers' = [i \in 0 .. (n - 2) |-> "allocated"]
    /\ m_commandBufferSecondary' = [i \in 0 .. (n - 2) |-> "recorded"]

\* createPrimaryCommandBuffer only allocates; createSecondaryCommandBuffers
\* allocates and records.  Both are sized by the framebuffers.
CreateCommandBuffers(n) ==
    /\ m_commandBuffers' = [i \in 0 .. (n - 1) |-> "allocated"]
    /\ m_commandBufferSecondary' = [i \in 0 .. (n - 1) |-> "recorded"]

\* Free both sets, allocate them again (lines 884-891).
ReallocateCommandBuffers ==
    /\ touch' = TouchOf("free", AllBuffers)
    /\ slotCmd' = [s \in Slots |-> -1]
    /\ CreateCommandBuffers(m_swapchainData.framebuffers)
    /\ UNCHANGED <<m_swapchainData, m_uniformBuffers>>

recreateCommandBuffer_NoWait ==
    /\ ReallocateCommandBuffers
    /\ teardown' = TeardownOf("recreateCommandBuffer", RecreateCommandBufferCalls)

\* vkDeviceWaitIdle, then the reallocation (lines 881-892).
recreateCommandBuffer ==
    /\ DeviceIdle
    /\ ReallocateCommandBuffers
    /\ teardown' =
          TeardownOf("recreateCommandBuffer", <<Wait>> \o RecreateCommandBufferCalls)

\* cleanUpSwapChain followed by the create* calls of recreateSwapChain.  The
\* new chain reports its own image count; the uniform buffers are not part
\* of the rebuild.
RebuildSwapChain ==
    /\ touch' = TouchOf("free", AllBuffers)
    /\ slotCmd' = [s \in Slots |-> -1]
    /\ \E n \in ImageCounts :
          /\ m_swapchainData' = [images |-> n, imageViews |-> n, framebuffers |-> n]
          /\ CreateCommandBuffers(n)
    /\ UNCHANGED m_uniformBuffers

recreateSwapChain_NoWait ==
    /\ RebuildSwapChain
    /\ teardown' =
          TeardownOf("recreateSwapChain", cleanUpSwapChain \o RecreateSwapChainCreates)

\* Lines 1334-1347.
recreateSwapChain ==
    /\ DeviceIdle
    /\ RebuildSwapChain
    /\ teardown' =
          TeardownOf("recreateSwapChain",
                     <<Wait>> \o cleanUpSwapChain \o RecreateSwapChainCreates)

SubmitInfo_NoWait(slot, image, id) ==
    [kind |-> "submit", id |-> id, slot |-> slot, cb |-> image,
     wait |-> {},
     signal |-> {<<"renderFinished", slot>>},
     fence |-> slot, stage |-> "queued", shows |-> FALSE]

\* One rendering submission, as drawFrame fills VkSubmitInfo (lines 82-94, 98).
SubmitInfo(slot, image, id) ==
    [kind |-> "submit", id |-> id, slot |-> slot, cb |-> image,
     wait |-> {<<"imageAvailable", slot>>},
     signal |-> {<<"renderFinished", slot>>},
     fence |-> slot, stage |-> "queued", shows |-> FALSE]

\* One present request, as drawFrame fills VkPresentInfoKHR.  The semaphore
\* wait of a rejected request is still executed; only `shows` differs.
PresentInfo(slot, image, id, result) ==
    [kind |-> "present", id |-> id, slot |-> slot, cb |-> image,
     wait |-> {<<"renderFinished", slot>>},
     signal |-> {},
     fence |-> -1, stage |-> "queued",
     shows |-> result \in {VK_SUCCESS, VK_SUBOPTIMAL_KHR}]

-----------------------------------------------------------------------------
\* drawFrame (Engine.cpp:52-125), one action per stretch between blocking
\* calls and device calls.

\* Where the call goes after vkAcquireNextImageKHR (lines 69-77).
AfterAcquire(result) ==
    IF result = VK_ERROR_OUT_OF_DATE_KHR THEN "recreateAcquire"
    ELSE IF result # VK_SUCCESS /\ result # VK_SUBOPTIMAL_KHR THEN "thrown"
    ELSE "record"

AfterRecreateOnAcquire_FallThrough == "record"

\* Line 72: the call returns after the rebuild.
AfterRecreateOnAcquire == "idle"

PresentRebuilds_NoSuboptimal(result, resize) ==
    result = VK_ERROR_OUT_OF_DATE_KHR \/ resize

\* The condition of line 112.
PresentRebuilds(result, resize) ==
    result = VK_ERROR_OUT_OF_DATE_KHR \/ result = VK_SUBOPTIMAL_KHR \/ resize

AfterPresent_EarlyReturn(result, resize) ==
    IF PresentRebuilds(result, resize) THEN "recreatePresent"
    ELSE IF result # VK_SUCCESS THEN "thrown"
    ELSE "idle"

\* Where the call goes after vkQueuePresentKHR (lines 112-120).
AfterPresent(result, resize) ==
    IF PresentRebuilds(result, resize) THEN "recreatePresent"
    ELSE IF result # VK_SUCCESS THEN "thrown"
    ELSE "waitIdle"

\* Line 114.
ResizeAfterPresent(result, resize) ==
    IF PresentRebuilds(result, resize) THEN FALSE ELSE resize

NextFrame_NoWrap(frame) == frame + 1

\* Line 124.
NextFrame(frame) == (frame + 1) % MAX_FRAMES_IN_FLIGHT

\* Line 54, with recreateCommandBuffer when the model was modified.
checkApplicationState ==
    /\ pc = "idle"
    /\ calls < MaxCalls
    /\ calls' = calls + 1
    /\ entryFrame' = m_currentFrame
    /\ entryResize' = m_framebufferResize
    /\ acquireResult' = NoResult
    /\ submitResult' = NoResult
    /\ presentResult' = NoResult
    /\ IF modelModified
         THEN /\ recreateCommandBuffer
              /\ modelModified' = FALSE
              /\ trace' = <<"checkApplicationState", "recreateCommandBuffer">>
         ELSE /\ trace' = <<"checkApplicationState">>
              /\ teardown' = NoTeardown
              /\ UNCHANGED <<modelModified, swapVars, ghostVars>>
    /\ pc' = "waitFence"
    /\ UNCHANGED <<m_currentFrame, m_framebufferResize, m_windowExtent, syncVars,
                   imageIndex, gpuVars>>
    /\ UNCHANGED lifeVars

\* Lines 58-60: vkWaitForFences without timeout, then vkResetFences.
DF_WaitFence(blocking) ==
    /\ pc = "waitFence"
    /\ blocking => m_inFlightFences[m_currentFrame]
    /\ m_inFlightFences' = [m_inFlightFences EXCEPT ![m_currentFrame] = FALSE]
    /\ trace' = trace \o <<"waitFence", "resetFence">>
    /\ pc' = "acquire"
    /\ UNCHANGED <<engineVars, m_imageAvailableSemaphore, m_renderFinishedSemaphore,
                   swapVars, localVars, gpuVars, calls, entryFrame, entryResize,
                   ghostVars>>
    /\ UNCHANGED <<lifeVars, teardown>>

\* Lines 62-77: the acquire and the branch on its result.
DF_Acquire ==
    /\ pc = "acquire"
    /\ \E result \in SurfaceResults, image \in 0 .. (m_swapchainData.images - 1) :
          /\ acquireResult' = result
          /\ IF result \in {VK_SUCCESS, VK_SUBOPTIMAL_KHR}
               THEN /\ imageIndex' = image
                    /\ acquirePending' = acquirePending \cup {m_currentFrame}
                    /\ imageReady' = [imageReady EXCEPT ![m_currentFrame] = FALSE]
                    /\ slotCmd' = [slotCmd EXCEPT ![m_currentFrame] = image]
               ELSE UNCHANGED <<imageIndex, acquirePending, imageReady, slotCmd>>
          /\ pc' = AfterAcquire(result)
    /\ trace' = trace \o <<"acquire">>
    /\ UNCHANGED <<engineVars, syncVars, swapVars, submitResult, presentResult,
                   queue, rendered, calls, entryFrame, entryResize, touch>>
    /\ UNCHANGED <<lifeVars, teardown>>

\* Line 71-72: recreateSwapChain, then return.
DF_RecreateOnAcquire ==
    /\ pc = "recreateAcquire"
    /\ recreateSwapChain
    /\ trace' = trace \o <<"recreateSwapChain">>
    /\ pc' = AfterRecreateOnAcquire
    /\ UNCHANGED <<engineVars, syncVars, localVars, gpuVars, calls, entryFrame,
                   entryResize>>
    /\ UNCHANGED lifeVars

\* Lines 79-80.  updateUniformBuffer writes one uniform buffer per image view;
\* with fewer uniform buffers than views it indexes m_uniformBuffersMemory
\* out of range, after which the process may die or go on.
\* updatePrimaryCommandBuffers then records every primary buffer.
DF_Record ==
    /\ pc = "record"
    /\ touch' = TouchOf("record", PrimaryBuffers)
    /\ m_commandBuffers' = [i \in DOMAIN m_commandBuffers |-> "recorded"]
    /\ trace' = trace \o <<"updateUniformBuffer", "record">>
    /\ IF m_swapchainData.imageViews > m_uniformBuffers
         THEN pc' \in {"submit", "crashed"}
         ELSE pc' = "submit"
    /\ UNCHANGED <<engineVars, syncVars, m_swapchainData, m_commandBufferSecondary,
                   m_uniformBuffers, localVars, gpuVars, calls, entryFrame,
                   entryResize, slotCmd>>
    /\ UNCHANGED <<lifeVars, teardown>>

\* Lines 82-98: the second vkResetFences and vkQueueSubmit under VK_CALL.
DF_Submit ==
    /\ pc = "submit"
    /\ m_inFlightFences' = [m_inFlightFences EXCEPT ![m_currentFrame] = FALSE]
    /\ \E result \in {VK_SUCCESS, "VK_ERROR_DEVICE_LOST"} :
          /\ submitResult' = result
          /\ IF result = VK_SUCCESS
               THEN /\ queue' = queue \cup {SubmitInfo(m_currentFrame, imageIndex, calls)}
                    /\ rendered' = [rendered EXCEPT ![m_currentFrame] = FALSE]
                    /\ pc' = "present"
               ELSE /\ UNCHANGED <<queue, rendered>>
                    /\ pc' = "thrown"
    /\ trace' = trace \o <<"resetFence", "submit">>
    /\ UNCHANGED <<engineVars, m_imageAvailableSemaphore, m_renderFinishedSemaphore,
                   swapVars, imageIndex, acquireResult, presentResult,
                   acquirePending, imageReady, calls, entryFrame, entryResize,
                   ghostVars>>
    /\ UNCHANGED <<lifeVars, teardown>>

\* Lines 100-120: vkQueuePresentKHR and the branch on its result.
DF_Present ==
    /\ pc = "present"
    /\ \E result \in SurfaceResults :
          /\ presentResult' = result
          /\ queue' = queue \cup {PresentInfo(m_currentFrame, imageIndex, calls, result)}
          /\ m_framebufferResize' = ResizeAfterPresent(result, m_framebufferResize)
          /\ pc' = AfterPresent(result, m_framebufferResize)
    /\ trace' = trace \o <<"present">>
    /\ UNCHANGED <<m_currentFrame, m_windowExtent, modelModified, syncVars, swapVars,
                   imageIndex, acquireResult, submitResult, acquirePending,
                   imageReady, rendered, calls, entryFrame, entryResize, ghostVars>>
    /\ UNCHANGED <<lifeVars, teardown>>

\* Line 115.
DF_RecreateOnPresent ==
    /\ pc = "recreatePresent"
    /\ recreateSwapChain
    /\ trace' = trace \o <<"recreateSwapChain">>
    /\ pc' = "waitIdle"
    /\ UNCHANGED <<engineVars, syncVars, localVars, gpuVars, calls, entryFrame,
                   entryResize>>
    /\ UNCHANGED lifeVars

QueueWaitIdle_Missing == TRUE

\* Line 122: vkQueueWaitIdle(m_presentQueue) returns when the queue is idle.
QueueWaitIdle == DeviceIdle

\* Lines 122-124: vkQueueWaitIdle, then the slot index advances.
DF_QueueWaitIdle(blocking) ==
    /\ pc = "waitIdle"
    /\ blocking => QueueWaitIdle
    /\ m_currentFrame' = NextFrame(m_currentFrame)
    /\ trace' = trace \o <<"queueWaitIdle", "advance">>
    /\ pc' = "idle"
    /\ UNCHANGED <<m_framebufferResize, m_windowExtent, modelModified, syncVars,
                   swapVars, localVars, gpuVars, calls, entryFrame, entryResize,
                   ghostVars>>
    /\ UNCHANGED <<lifeVars, teardown>>

drawFrame_NoHostWait ==
    \/ checkApplicationState
    \/ DF_WaitFence(FALSE)
    \/ DF_Acquire
    \/ DF_RecreateOnAcquire
    \/ DF_Record
    \/ DF_Submit
    \/ DF_Present
    \/ DF_RecreateOnPresent
    \/ DF_QueueWaitIdle(FALSE)

drawFrame ==
    \/ checkApplicationState
    \/ DF_WaitFence(TRUE)
    \/ DF_Acquire
    \/ DF_RecreateOnAcquire
    \/ DF_Record
    \/ DF_Submit
    \/ DF_Present
    \/ DF_RecreateOnPresent
    \/ DF_QueueWaitIdle(TRUE)

-----------------------------------------------------------------------------
\* Calls main.cpp makes between two drawFrame calls.

ResizedExtent_WidthOnly(extent, resize, width, height) ==
    IF extent[1] = width
      THEN [extent |-> extent, resize |-> resize]
      ELSE [extent |-> <<width, height>>, resize |-> TRUE]

\* The extent and the resize flag resizeExtent leaves (Engine.cpp:258-264).
ResizedExtent(extent, resize, width, height) ==
    IF extent[1] = width /\ extent[2] = height
      THEN [extent |-> extent, resize |-> resize]
      ELSE [extent |-> <<width, height>>, resize |-> TRUE]

\* Engine.cpp:256-267.
resizeExtent(width, height) ==
    /\ pc = "idle"
    /\ m_windowExtent' =
          ResizedExtent(m_windowExtent, m_framebufferResize, width, height).extent
    /\ m_framebufferResize' =
          ResizedExtent(m_windowExtent, m_framebufferResize, width, height).resize
    /\ UNCHANGED <<pc, m_currentFrame, modelModified, syncVars, swapVars, localVars,
                   gpuVars, callVars, ghostVars>>
    /\ UNCHANGED <<lifeVars, teardown>>

\* Engine::setModel is declared in Engine.hpp:214; a new model marks the
\* geometry dirty (spec 4.5).
setModel ==
    /\ pc = "idle"
    /\ ~modelModified
    /\ modelModified' = TRUE
    /\ UNCHANGED <<pc, m_currentFrame, m_framebufferResize, m_windowExtent, syncVars,
                   swapVars, localVars, gpuVars, callVars, ghostVars>>
    /\ UNCHANGED <<lifeVars, teardown>>

-----------------------------------------------------------------------------
\* Shutdown.

CleanupRuns_Unguarded == TRUE

\* The guard of cleanup (line 1382).
CleanupRuns == ~m_isCleaned

\* Engine::cleanup (lines 1380-1433).  The vectors keep their sizes and the
\* handles their values; no wait precedes the destruction calls.
cleanup ==
    /\ IF CleanupRuns
         THEN /\ m_isCleaned' = TRUE
              /\ teardown' = TeardownOf("cleanup", CleanupCalls(m_indices))
         ELSE /\ teardown' = TeardownOf("cleanup", <<>>)
              /\ UNCHANGED m_isCleaned
    /\ UNCHANGED <<engineVars, syncVars, swapVars, localVars, gpuVars, callVars,
                   ghostVars, m_indices, selVars, setupVars, queueVars>>

\* main.cpp:70, renderer.cleanup() once the window is closed.
MainCleanup ==
    /\ pc = "idle"
    /\ cleanup
    /\ pc' = "cleaned"

\* ~Engine (lines 127-130) at the end of main, and during the unwinding of
\* an error raised by drawFrame when the implementation unwinds the stack.
Destructor ==
    /\ pc \in {"cleaned", "thrown"}
    /\ cleanup
    /\ pc' = IF pc = "cleaned" THEN "destroyed" ELSE "unwound"

-----------------------------------------------------------------------------
\* The device.

\* The presentation engine releases the acquired image: the semaphore
\* passed to vkAcquireNextImageKHR (line 65) is signaled.
ImageAvailable(slot) ==
    /\ slot \in acquirePending
    /\ acquirePending' = acquirePending \ {slot}
    /\ m_imageAvailableSemaphore' = [m_imageAvailableSemaphore EXCEPT ![slot] = TRUE]
    /\ imageReady' = [imageReady EXCEPT ![slot] = TRUE]
    /\ UNCHANGED <<pc, engineVars, m_inFlightFences, m_renderFinishedSemaphore,
                   swapVars, localVars, queue, rendered, callVars, ghostVars>>
    /\ UNCHANGED <<lifeVars, teardown>>

\* A queued operation starts once every semaphore it waits on is signaled;
\* the wait unsignals them.  For a submission this is the start of the
\* color-attachment-output stage (line 89), for a present the hand-over of
\* the image to the presentation engine.
QueueOpBegin(op) ==
    /\ op \in queue
    /\ op.stage = "queued"
    /\ \A w \in op.wait : SemSignaled(w)
    /\ queue' = (queue \ {op}) \cup {[op EXCEPT !.stage = "executing"]}
    /\ m_imageAvailableSemaphore' =
          [s \in Slots |-> IF <<"imageAvailable", s>> \in op.wait
                             THEN FALSE ELSE m_imageAvailableSemaphore[s]]
    /\ m_renderFinishedSemaphore' =
          [s \in Slots |-> IF <<"renderFinished", s>> \in op.wait
                             THEN FALSE ELSE m_renderFinishedSemaphore[s]]
    /\ UNCHANGED <<pc, engineVars, m_inFlightFences, swapVars, localVars,
                   acquirePending, imageReady, rendered, callVars, ghostVars>>
    /\ UNCHANGED <<lifeVars, teardown>>

\* A started operation completes: its signal semaphores and its fence are
\* signaled.
QueueOpComplete(op) ==
    /\ op \in queue
    /\ op.stage = "executing"
    /\ queue' = queue \ {op}
    /\ m_renderFinishedSemaphore' =
          [s \in Slots |-> IF <<"renderFinished", s>> \in op.signal
                             THEN TRUE ELSE m_renderFinishedSemaphore[s]]
    /\ m_inFlightFences' =
          [s \in Slots |-> IF op.fence = s THEN TRUE ELSE m_inFlightFences[s]]
    /\ rendered' =
          [s \in Slots |-> IF op.kind = "submit" /\ op.slot = s
                             THEN TRUE ELSE rendered[s]]
    /\ UNCHANGED <<pc, engineVars, m_imageAvailableSemaphore, swapVars, localVars,
                   acquirePending, imageReady, callVars, ghostVars>>
    /\ UNCHANGED <<lifeVars, teardown>>

Device ==
    \/ \E slot \in Slots : ImageAvailable(slot)
    \/ \E op \in queue : QueueOpBegin(op)
    \/ \E op \in queue : QueueOpComplete(op)

-----------------------------------------------------------------------------

Next ==
    \/ drawFrame
    \/ \E width \in 1 .. MaxExtent, height \in 1 .. MaxExtent : resizeExtent(width, height)
    \/ setModel
    \/ MainCleanup
    \/ Destructor
    \/ Device

Spec == Init /\ [][Next]_vars

-----------------------------------------------------------------------------
\* Device selection at startup: pickPhysicalDevice and the first lines of
\* createLogicalDevice, explored on their own from the state createInstance
\* leaves.

QueueFlags == {"GRAPHICS", "TRANSFER"}

\* One entry of vkGetPhysicalDeviceQueueFamilyProperties together with the
\* answer of vkGetPhysicalDeviceSurfaceSupportKHR for its index.
QueueFamilies ==
    [queueCount : {1}, queueFlags : SUBSET QueueFlags, presentSupport : BOOLEAN]
        \cup {[queueCount |-> 0, queueFlags |-> QueueFlags, presentSupport |-> TRUE]}

RECURSIVE SeqsOf(_, _)
\* Sequences over S of length at most n.
SeqsOf(S, n) ==
    IF n = 0 THEN {<<>>}
    ELSE LET shorter == SeqsOf(S, n - 1)
         IN  shorter \cup {Append(seq, x) : seq \in {q \in shorter : Len(q) = n - 1}, x \in S}

\* One iteration of the loop of findQueueFamilies (lines 23-39): the
\* indices after looking at the family at position `index`.
ScanFamily(indices, queueProperty, index) ==
    [graphicsFamily |->
        IF queueProperty.queueCount > 0 /\ "GRAPHICS" \in queueProperty.queueFlags
          THEN index ELSE indices.graphicsFamily,
     transferFamily |->
        IF queueProperty.queueCount > 0 /\ "TRANSFER" \in queueProperty.queueFlags
          THEN index ELSE indices.transferFamily,
     presentingFamily |->
        IF queueProperty.queueCount > 0 /\ queueProperty.presentSupport
          THEN index ELSE indices.presentingFamily]

RECURSIVE FamilyLoop(_, _, _)
\* The loop of findQueueFamilies from position `index` (0-based) on, with
\* its break (lines 41-44).  `scanned` counts the families looked at.
FamilyLoop(queueProperties, indices, index) ==
    IF index >= Len(queueProperties)
      THEN [indices |-> indices, scanned |-> index]
      ELSE LET found == ScanFamily(indices, queueProperties[index + 1], index)
           IN  IF isComplete(found) /\ transferAvailable(found)
                 THEN [indices |-> found, scanned |-> index + 1]
                 ELSE FamilyLoop(queueProperties, found, index + 1)

\* PhysicalDeviceProperties.cpp:10-49.
findQueueFamilies(queueProperties) ==
    FamilyLoop(queueProperties, NoIndices, 0).indices

\* VkBool32.
VK_TRUE == 1
VK_FALSE == 0

Features == {"sampleRateShading", "samplerAnisotropy"}

\* Engine.cpp:38, the rest of the structure is zero.
m_requiredDeviceFeatures ==
    [f \in Features |-> IF f = "sampleRateShading" THEN VK_TRUE ELSE VK_FALSE]

\* Engine.hpp:63.
DEVICE_EXTENSIONS == {"VK_KHR_swapchain"}

\* PhysicalDeviceProperties.cpp:117-135.
isDeviceContainingFeatures(deviceFeatures, requiredFeatures) ==
    ~ \E f \in Features :
          deviceFeatures[f] # requiredFeatures[f] /\ requiredFeatures[f] = VK_TRUE

\* PhysicalDeviceProperties.cpp:76-92.
checkDeviceExtensionSupport(extensionsProperties, extensions) ==
    extensions \ extensionsProperties = {}

\* What the queries of isDeviceSuitable return for a physical device.
PhysicalDevices ==
    [deviceType : {"DISCRETE_GPU", "INTEGRATED_GPU"},
     features : [Features -> {VK_FALSE, VK_TRUE}],
     extensions : SUBSET DEVICE_EXTENSIONS,
     surfaceFormats : 0 .. 1,
     presentModes : 0 .. 1,
     queueFamilies : SeqsOf(QueueFamilies, MaxFamilies)]

isDeviceSuitable_AnyType(d, extensions, requiredFeatures) ==
    LET isDeviceExtensionsSupported == checkDeviceExtensionSupport(d.extensions, extensions)
        swapChainAdequate ==
            IF isDeviceExtensionsSupported
              THEN d.surfaceFormats # 0 /\ d.presentModes # 0
              ELSE FALSE
    IN  /\ isDeviceContainingFeatures(d.features, requiredFeatures)
        /\ isDeviceExtensionsSupported
        /\ swapChainAdequate
        /\ isComplete(findQueueFamilies(d.queueFamilies))

\* Engine.cpp:1501-1526.
isDeviceSuitable(d, extensions, requiredFeatures) ==
    LET isDeviceExtensionsSupported == checkDeviceExtensionSupport(d.extensions, extensions)
        swapChainAdequate ==
            IF isDeviceExtensionsSupported
              THEN d.surfaceFormats # 0 /\ d.presentModes # 0
              ELSE FALSE
    IN  /\ d.deviceType = "DISCRETE_GPU"
        /\ isDeviceContainingFeatures(d.features, requiredFeatures)
        /\ isDeviceExtensionsSupported
        /\ swapChainAdequate
        /\ isComplete(findQueueFamilies(d.queueFamilies))

\* The five conditions of the device selector, as the contract words them.
Qualifies(d) ==
    /\ d.deviceType = "DISCRETE_GPU"
    /\ \A f \in Features : m_requiredDeviceFeatures[f] = VK_TRUE => d.features[f] = VK_TRUE
    /\ DEVICE_EXTENSIONS \subseteq d.extensions
    /\ d.surfaceFormats > 0 /\ d.presentModes > 0
    /\ \E i \in DOMAIN d.queueFamilies :
          d.queueFamilies[i].queueCount > 0 /\ "GRAPHICS" \in d.queueFamilies[i].queueFlags
    /\ \E i \in DOMAIN d.queueFamilies :
          d.queueFamilies[i].queueCount > 0 /\ d.queueFamilies[i].presentSupport

\* The state createInstance and setSurface leave: nothing of initVulkan
\* exists yet.  m_windowExtent is not read before createSwapChain.
SelectInit ==
    /\ pc = "pickPhysicalDevice"
    /\ m_currentFrame = 0
    /\ m_framebufferResize = FALSE
    /\ m_windowExtent = <<1, 1>>
    /\ modelModified = FALSE
    /\ m_inFlightFences = [s \in Slots |-> FALSE]
    /\ m_imageAvailableSemaphore = [s \in Slots |-> FALSE]
    /\ m_renderFinishedSemaphore = [s \in Slots |-> FALSE]
    /\ m_swapchainData = [images |-> 0, imageViews |-> 0, framebuffers |-> 0]
    /\ m_commandBuffers = <<>>
    /\ m_commandBufferSecondary = <<>>
    /\ m_uniformBuffers = 0
    /\ imageIndex = 0
    /\ acquireResult = NoResult
    /\ submitResult = NoResult
    /\ presentResult = NoResult
    /\ queue = {}
    /\ acquirePending = {}
    /\ imageReady = [s \in Slots |-> FALSE]
    /\ rendered = [s \in Slots |-> FALSE]
    /\ trace = <<>>
    /\ calls = 0
    /\ entryFrame = 0
    /\ entryResize = FALSE
    /\ slotCmd = [s \in Slots |-> -1]
    /\ touch = NoTouch
    /\ m_isCleaned = FALSE
    /\ m_indices = NoIndices
    /\ teardown = NoTeardown
    /\ deviceCount \in 0 .. MaxDevices
    /\ deviceIndex = 0
    /\ device = NoDevice
    /\ suitIndices = NoIndices
    /\ m_physicalDevice = NoDevice
    /\ passedOver = FALSE
    /\ applied = NoChoice
    /\ m_graphicsQueue = Indeterminate
    /\ m_presentQueue = Indeterminate
    /\ m_transfertQueue = Indeterminate
    /\ m_commandPool = Indeterminate
    /\ m_commandPoolTransfert = Indeterminate
    /\ m_mesh = LoadedMesh
    /\ m_meshData = [vertexBuffer |-> Indeterminate, indexBuffer |-> Indeterminate]
    /\ stagingBuffer = VK_NULL_HANDLE
    /\ copy = NoCopy
    /\ steps = <<>>
    /\ m_resources = {}
    /\ m_size = 0

frameVars ==
    <<engineVars, syncVars, swapVars, localVars, gpuVars, callVars, ghostVars,
      m_isCleaned, teardown, setupVars>>

\* getBestPhysicalDevice, lines 1533-1543: the enumeration.
EnumerateDevices ==
    /\ pc = "pickPhysicalDevice"
    /\ pc' = IF deviceCount = 0 THEN "thrown" ELSE "scan"
    /\ UNCHANGED <<frameVars, m_indices, queueVars, selVars>>

\* Lines 1546-1548 with 1501-1526: the loop takes the next device and
\* isDeviceSuitable queries it.
ExamineDevice ==
    /\ pc = "scan"
    /\ deviceIndex < deviceCount
    /\ \E d \in PhysicalDevices :
          /\ device' = d
          /\ suitIndices' = findQueueFamilies(d.queueFamilies)
    /\ deviceIndex' = deviceIndex + 1
    /\ pc' = "isDeviceSuitable"
    /\ UNCHANGED <<frameVars, m_indices, queueVars, deviceCount, m_physicalDevice, passedOver>>

\* Lines 1548-1552: the first suitable device ends the loop.  passedOver
\* remembers that a device with the five properties was not taken.
SelectOrSkip ==
    /\ pc = "isDeviceSuitable"
    /\ IF isDeviceSuitable(device, DEVICE_EXTENSIONS, m_requiredDeviceFeatures)
         THEN /\ m_physicalDevice' = deviceIndex
              /\ pc' = "createLogicalDevice"
              /\ UNCHANGED <<device, suitIndices, passedOver>>
         ELSE /\ passedOver' = (passedOver \/ Qualifies(device))
              /\ device' = NoDevice
              /\ suitIndices' = NoIndices
              /\ pc' = "scan"
              /\ UNCHANGED m_physicalDevice
    /\ UNCHANGED <<frameVars, m_indices, queueVars, deviceCount, deviceIndex>>

\* Lines 1555-1559: no device was suitable.
NoSuitableDevice ==
    /\ pc = "scan"
    /\ deviceIndex = deviceCount
    /\ pc' = "thrown"
    /\ UNCHANGED <<frameVars, m_indices, queueVars, selVars>>

\* createLogicalDevice, lines 328-376: the mapping of line 331 and the
\* queues of lines 371-373.
createLogicalDevice ==
    /\ pc = "createLogicalDevice"
    /\ m_indices' = findQueueFamilies(device.queueFamilies)
    /\ m_graphicsQueue' = GetDeviceQueue(m_indices'.graphicsFamily)
    /\ m_presentQueue' = GetDeviceQueue(m_indices'.presentingFamily)
    /\ m_transfertQueue' = GetDeviceQueue(m_indices'.transferFamily)
    /\ pc' = "createSwapChain"
    /\ UNCHANGED <<frameVars, selVars>>

SelectNext ==
    \/ EnumerateDevices
    \/ ExamineDevice
    \/ SelectOrSkip
    \/ NoSuitableDevice
    \/ createLogicalDevice

SelectSpec == SelectInit /\ [][SelectNext]_vars

-----------------------------------------------------------------------------
\* Properties of the frame scheduler.

Has(step) == Count(trace, step) > 0
Rebuilds == Count(trace, "recreateSwapChain")
\* The last drawFrame call has returned or raised.
CallOver == calls > 0 /\ pc \in {"idle", "thrown"}

\* C1: no primary or secondary command buffer is recorded again or freed
\* while a queue submission that refers to it has not completed.
C1_NoTouchWhileInUse ==
    touch.bufs \cap touch.inUse = {}

\* The buffers are freed by a rebuild that follows a submission of the same call.
C1_Witness ==
    /\ touch.kind = "free"
    /\ Has("submit")
    /\ pc = "waitIdle"

C3_SemaphoreOrder ==
    \A op \in queue :
        op.stage = "executing" =>
            /\ op.kind = "submit" => imageReady[op.slot]
            /\ op.kind = "present" => rendered[op.slot]

\* An image is being presented, after its rendering.
C3_Witness ==
    \E op \in queue : op.kind = "present" /\ op.stage = "executing" /\ op.shows

\* A semaphore that is signaled, or whose signal is owed by the device.
Owed(w) ==
    \/ SemSignaled(w)
    \/ w[1] = "imageAvailable" /\ w[2] \in acquirePending
    \/ \E op \in Submissions : w \in op.signal

\* C4: drawFrame never blocks forever: whenever it waits for the slot's
\* fence, the fence is signaled or a submission that signals it is
\* outstanding, and whenever it waits for the queue or the device to be idle,
\* every outstanding operation can still start.  With a device that completes
\* all its work this is what makes every wait return.
C4_NeverBlocksForever ==
    /\ pc = "waitFence" =>
          \/ m_inFlightFences[m_currentFrame]
          \/ \E op \in Submissions : op.fence = m_currentFrame
    /\ pc \in {"recreateAcquire", "recreatePresent", "waitIdle"} =>
          \A op \in queue : op.stage = "queued" => \A w \in op.wait : Owed(w)

\* C5, as stated: the slot index is in 0..N-1, a call that reaches the
\* present step advances it by one modulo N, a call aborted by an
\* out-of-date acquire leaves it unchanged.
C5_Original ==
    /\ m_currentFrame \in Slots
    /\ CallOver /\ Has("present") =>
          m_currentFrame = (entryFrame + 1) % MAX_FRAMES_IN_FLIGHT
    /\ CallOver /\ acquireResult = VK_ERROR_OUT_OF_DATE_KHR =>
          m_currentFrame = entryFrame

\* C5, amended: the slot index is in 0..N-1, a call that reaches the present
\* step and returns advances it by one modulo N, a call that raises an error
\* or is aborted by an out-of-date acquire leaves it unchanged.
C5_FrameIndex ==
    /\ m_currentFrame \in Slots
    /\ calls > 0 /\ pc = "idle" /\ Has("present") =>
          m_currentFrame = (entryFrame + 1) % MAX_FRAMES_IN_FLIGHT
    /\ calls > 0 /\ pc = "thrown" => m_currentFrame = entryFrame
    /\ CallOver /\ acquireResult = VK_ERROR_OUT_OF_DATE_KHR =>
          m_currentFrame = entryFrame

\* The index has wrapped around to slot 0.
C5_Witness ==
    /\ pc = "idle"
    /\ Has("advance")
    /\ entryFrame = MAX_FRAMES_IN_FLIGHT - 1
    /\ m_currentFrame = 0

C7_PresentRebuild ==
    Has("present") =>
        /\ pc \in {"recreatePresent", "waitIdle", "thrown"} => ~m_framebufferResize
        /\ pc \in {"waitIdle", "idle", "thrown"} =>
              Rebuilds = (IF \/ presentResult = VK_ERROR_OUT_OF_DATE_KHR
                             \/ presentResult = VK_SUBOPTIMAL_KHR
                             \/ entryResize
                          THEN 1 ELSE 0)

\* A successful present with a pending resize has rebuilt the swapchain.
C7_Witness ==
    /\ Has("present")
    /\ pc = "waitIdle"
    /\ presentResult = VK_SUCCESS
    /\ entryResize
    /\ Rebuilds = 1
    /\ ~m_framebufferResize

IsClaimedStep(step) ==
    step \in {"waitFence", "resetFence", "acquire", "updateUniformBuffer", "record",
              "submit", "present", "queueWaitIdle", "advance"}

\* C8, as stated: in a call that is not aborted, each of the steps wait for
\* and reset the fence, acquire, update uniforms and record, submit, present,
\* wait for the queue, advance happens exactly once, in this order.
C8_Original ==
    pc = "idle" /\ Has("submit") =>
        SelectSeq(trace, IsClaimedStep) =
            <<"waitFence", "resetFence", "acquire", "updateUniformBuffer", "record",
              "submit", "present", "queueWaitIdle", "advance">>

FrameOrders ==
    {head \o <<"waitFence", "resetFence", "acquire", "updateUniformBuffer", "record",
               "resetFence", "submit", "present">> \o rebuild
          \o <<"queueWaitIdle", "advance">> :
        head \in {<<"checkApplicationState">>,
                  <<"checkApplicationState", "recreateCommandBuffer">>},
        rebuild \in {<<>>, <<"recreateSwapChain">>}}

\* C8, amended: in a call that is not aborted the steps are, in this order:
\* the dirty-geometry check (which frees and recreates the command buffers
\* when the flag is set), wait for and reset the fence, acquire, update
\* uniforms and record every primary buffer, reset the fence again, submit,
\* present, the swapchain rebuild if one is due, wait for the queue, advance.
C8_FrameOrder ==
    pc = "idle" /\ Has("submit") => trace \in FrameOrders

\* A full frame that started with dirty geometry.
C8_Witness ==
    /\ pc = "idle"
    /\ Has("advance")
    /\ Has("recreateCommandBuffer")

\* C9: at most N submissions are outstanding (submitted, fence not signaled).
C9_AtMostNInFlight ==
    Cardinality(Submissions) <= MAX_FRAMES_IN_FLIGHT

\* A frame is in flight and executing.
C9_Witness ==
    \E op \in Submissions : op.stage = "executing" /\ ~m_inFlightFences[op.fence]

\* C10: drawFrame raises an error exactly when acquire returns something
\* other than success, suboptimal or out-of-date, or submit fails, or
\* present returns something other than success, suboptimal or out-of-date.
C10_ErrorIff ==
    CallOver =>
        ((pc = "thrown") <=>
            \/ acquireResult = VK_ERROR_SURFACE_LOST_KHR
            \/ submitResult \notin {NoResult, VK_SUCCESS}
            \/ presentResult = VK_ERROR_SURFACE_LOST_KHR)

\* C11: after every swapchain rebuild the number of image views, of
\* framebuffers and of per-image uniform buffers all equal the image
\* count of the new chain.
C11_RebuildCounts ==
    Has("recreateSwapChain") =>
        /\ m_swapchainData.imageViews = m_swapchainData.images
        /\ m_swapchainData.framebuffers = m_swapchainData.images
        /\ m_uniformBuffers = m_swapchainData.images

-----------------------------------------------------------------------------
\* Properties of rebuilds and of the shutdown.

Occurs(seq, e) == \E i \in DOMAIN seq : seq[i] = e
IndexOf(seq, e) == CHOOSE i \in DOMAIN seq : seq[i] = e
Once(seq, e) == Cardinality({i \in DOMAIN seq : seq[i] = e}) = 1
\* Both calls are made, a before b.
Precedes(seq, a, b) ==
    Occurs(seq, a) /\ Occurs(seq, b) /\ IndexOf(seq, a) < IndexOf(seq, b)
\* The calls of chain are made in that order.
InOrder(seq, chain) ==
    \A k \in 1 .. (Len(chain) - 1) : Precedes(seq, chain[k], chain[k + 1])
\* Every destruction call comes before every creation call.
DestroysFirst(seq) ==
    \A i, j \in DOMAIN seq : seq[i][1] = "destroy" /\ seq[j][1] = "create" => i < j
ObjectsOf(seq, kind) == {seq[i][2] : i \in {j \in DOMAIN seq : seq[j][1] = kind}}
Reverse(seq) == [i \in 1 .. Len(seq) |-> seq[Len(seq) + 1 - i]]
Rebuilt == teardown.op = "recreateSwapChain"
CleanedUp == teardown.op = "cleanup" /\ teardown.events # <<>>

\* The order in which a rebuild creates the chain and what depends on it.
RebuildCreateOrder(seq) ==
    /\ InOrder(seq, <<Create("swapchain"), Create("m_renderPass"),
                      Create("m_graphicsPipeline"), Create("depth"),
                      Create("color"), Create("framebuffers")>>)
    /\ DestroysFirst(seq)

\* C12, as stated: a rebuild waits for the device, destroys framebuffers,
\* pipeline, render pass, depth and color attachments, image views and the
\* chain in that order, and only then creates chain, render pass, pipeline,
\* attachments and framebuffers.
C12_Original ==
    Rebuilt =>
        /\ Head(teardown.events) = Wait
        /\ InOrder(teardown.events,
                   <<Destroy("framebuffers"), Destroy("m_graphicsPipeline"),
                     Destroy("m_renderPass"), Destroy("depth"), Destroy("color"),
                     Destroy("imageViews"), Destroy("swapchain")>>)
        /\ RebuildCreateOrder(teardown.events)

\* C12: a rebuild waits for the device, destroys framebuffers, depth and
\* color attachments, pipeline, render pass, image views and the chain in
\* that order, and only then creates chain, render pass, pipeline,
\* attachments and framebuffers.
C12_RecreationOrder ==
    Rebuilt =>
        /\ Head(teardown.events) = Wait
        /\ InOrder(teardown.events,
                   <<Destroy("framebuffers"), Destroy("depth"), Destroy("color"),
                     Destroy("m_graphicsPipeline"), Destroy("m_renderPass"),
                     Destroy("imageViews"), Destroy("swapchain")>>)
        /\ RebuildCreateOrder(teardown.events)

\* A drawFrame call has rebuilt the swapchain after the present step.
C12_Witness ==
    Rebuilt /\ pc = "waitIdle" /\ Has("present")

\* C13: once the model is marked modified or the swapchain is rebuilt, the
\* primary and secondary command buffers are freed and allocated again in
\* an operation that starts with a device-idle wait, and all of them are
\* recorded when the next submission is made; no frame is in progress
\* while the model is marked modified.
C13_FreeAndRerecord ==
    /\ modelModified => pc \in {"idle", "cleaned", "destroyed"}
    /\ teardown.op \in {"recreateCommandBuffer", "recreateSwapChain"} =>
          /\ Head(teardown.events) = Wait
          /\ \A cb \in {"m_commandBuffers", "m_commandBufferSecondary"} :
                /\ Precedes(teardown.events, Wait, Destroy(cb))
                /\ Precedes(teardown.events, Destroy(cb), Create(cb))
    /\ (Has("recreateCommandBuffer") \/ Has("recreateSwapChain")) =>
          teardown.op \in {"recreateCommandBuffer", "recreateSwapChain", "cleanup"}
    /\ pc = "submit" =>
          /\ \A i \in DOMAIN m_commandBuffers : m_commandBuffers[i] = "recorded"
          /\ \A i \in DOMAIN m_commandBufferSecondary :
                m_commandBufferSecondary[i] = "recorded"

\* The model was modified, the buffers were reallocated, and the frame is
\* about to be submitted.
C13_Witness ==
    /\ pc = "submit"
    /\ Has("recreateCommandBuffer")
    /\ teardown.op = "recreateCommandBuffer"

\* Objects the logical device owns.
DeviceOwned(indices) ==
    ObjectsOf(createInstance \o initVulkan(indices), "create")
        \ {"m_instance", "m_debugMessenger", "m_surface", "m_logicalDevice"}

\* Among the objects seq destroys, one is destroyed before what it was
\* created from, and every object the device owns before the device.
DependencyOrder(seq, indices) ==
    /\ \A pair \in CreatedFrom :
          (Occurs(seq, Destroy(pair[1])) /\ Occurs(seq, Destroy(pair[2]))) =>
              Precedes(seq, Destroy(pair[1]), Destroy(pair[2]))
    /\ Occurs(seq, Destroy("m_logicalDevice")) =>
          \A object \in DeviceOwned(indices) :
              Precedes(seq, Destroy(object), Destroy("m_logicalDevice"))

\* C14: in a swapchain rebuild and in cleanup an object is destroyed before
\* every object it was created from: framebuffers and image views before
\* the swapchain, framebuffers and pipeline before the render pass, command
\* buffers before their pool, device-owned objects before the device, the
\* device before the instance.
C14_DestroyBeforeParent ==
    (Rebuilt \/ CleanedUp) =>
        /\ DependencyOrder(teardown.events, m_indices)
        /\ Precedes(teardown.events, Destroy("framebuffers"), Destroy("swapchain"))
        /\ Precedes(teardown.events, Destroy("imageViews"), Destroy("swapchain"))
        /\ Precedes(teardown.events, Destroy("framebuffers"), Destroy("m_renderPass"))
        /\ Precedes(teardown.events, Destroy("m_graphicsPipeline"), Destroy("m_renderPass"))
        /\ CleanedUp =>
              /\ Precedes(teardown.events, Destroy("m_commandBuffers"),
                          Destroy("m_commandPool"))
              /\ Precedes(teardown.events, Destroy("m_commandBufferSecondary"),
                          Destroy("m_commandPool"))
              /\ Precedes(teardown.events, Destroy("m_logicalDevice"),
                          Destroy("m_instance"))

\* cleanup ran after a drawFrame call that had rebuilt the swapchain, on a
\* device with a transfer pool.
C14_Witness ==
    CleanedUp /\ Has("recreateSwapChain") /\ transferAvailable(m_indices)

\* C15: a second cleanup call (here the destructor after main's cleanup)
\* makes no destruction call, raises no error and leaves the engine state
\* unchanged.
C15_SecondCleanupNoOp ==
    [][pc = "cleaned" =>
          /\ teardown'.events = <<>>
          /\ pc' \in {"cleaned", "destroyed"}
          /\ UNCHANGED <<engineVars, syncVars, swapVars, lifeVars>>]_vars

\* The destructor has run after cleanup.
C15_Witness ==
    pc = "destroyed" /\ m_isCleaned /\ teardown.op = "cleanup"

C17_CleanupWaitsIdle ==
    CleanedUp =>
        /\ Head(teardown.events) = Wait
        /\ ~teardown.busy

\* What C18 says resizeExtent(width, height) leaves, from the extent and
\* the flag it finds.
ClaimedResize(extent, resize, width, height) ==
    IF <<width, height>> = extent
      THEN [extent |-> extent, resize |-> resize]
      ELSE [extent |-> <<width, height>>, resize |-> TRUE]

\* C18: resizeExtent with the stored extent changes nothing; with another
\* extent it stores that extent and sets the resize flag and changes
\* nothing else of the frame state; a second call with the same arguments
\* changes nothing more.
C18_ResizeExtent ==
    /\ [](\A width, height \in 1 .. MaxExtent :
            LET once == ResizedExtent(m_windowExtent, m_framebufferResize, width, height)
            IN  /\ once = ClaimedResize(m_windowExtent, m_framebufferResize, width, height)
                /\ ResizedExtent(once.extent, once.resize, width, height) = once)
    /\ [][(pc = "idle" /\ pc' = "idle" /\ modelModified' = modelModified) =>
            /\ \E width, height \in 1 .. MaxExtent :
                  /\ m_windowExtent' =
                        ClaimedResize(m_windowExtent, m_framebufferResize, width, height).extent
                  /\ m_framebufferResize' =
                        ClaimedResize(m_windowExtent, m_framebufferResize, width, height).resize
            /\ UNCHANGED <<m_currentFrame, syncVars, swapVars, lifeVars>>]_vars

\* resizeExtent has stored a new extent before the first frame.
C18_Witness ==
    pc = "idle" /\ calls = 0 /\ m_framebufferResize

-----------------------------------------------------------------------------
\* Properties of the device selection.

Selected == pc \in {"createLogicalDevice", "createSwapChain"}

\* C19: the selector takes the first enumerated device that is discrete,
\* has every required feature and extension, non-empty format and present
\* mode lists and a graphics and a present family; it never takes another
\* device, and it raises an error when no device is enumerated or none
\* has the five properties.
C19_FirstQualifyingDevice ==
    /\ pc = "isDeviceSuitable" =>
          (isDeviceSuitable(device, DEVICE_EXTENSIONS, m_requiredDeviceFeatures)
              <=> Qualifies(device))
    /\ ~passedOver
    /\ Selected => m_physicalDevice = deviceIndex /\ Qualifies(device)
    /\ ~Selected => m_physicalDevice = NoDevice
    /\ pc = "thrown" => deviceIndex = deviceCount

\* The second enumerated device was selected after the first was rejected.
C19_Witness ==
    pc = "createLogicalDevice" /\ m_physicalDevice = 2

\* Position (0-based) of the first family with the property, or -1.
FirstFamily(queueProperties, Offers(_)) ==
    LET hits == {i \in DOMAIN queueProperties :
                    queueProperties[i].queueCount > 0 /\ Offers(queueProperties[i])}
    IN  IF hits = {} THEN -1
        ELSE (CHOOSE i \in hits : \A j \in hits : i <= j) - 1

OffersGraphics(queueProperty) == "GRAPHICS" \in queueProperty.queueFlags
OffersTransfer(queueProperty) == "TRANSFER" \in queueProperty.queueFlags
OffersPresent(queueProperty) == queueProperty.presentSupport

FirstFamilies(queueProperties) ==
    [graphicsFamily |-> FirstFamily(queueProperties, OffersGraphics),
     presentingFamily |-> FirstFamily(queueProperties, OffersPresent),
     transferFamily |-> FirstFamily(queueProperties, OffersTransfer)]

Max3(a, b, c) == CHOOSE m \in {a, b, c} : \A x \in {a, b, c} : x <= m

\* Families looked at when the scan stops as soon as all three are found.
ScannedUntilFound(queueProperties) ==
    LET first == FirstFamilies(queueProperties)
    IN  IF first.graphicsFamily >= 0 /\ first.presentingFamily >= 0
              /\ first.transferFamily >= 0
          THEN Max3(first.graphicsFamily, first.presentingFamily,
                    first.transferFamily) + 1
          ELSE Len(queueProperties)

\* C20: findQueueFamilies returns the first family offering graphics, the
\* first offering transfer and the first supporting presentation, and looks
\* at no family after the one that completes the three.
C20_FirstFamilies ==
    pc = "isDeviceSuitable" =>
        /\ suitIndices = FirstFamilies(device.queueFamilies)
        /\ FamilyLoop(device.queueFamilies, NoIndices, 0).scanned
              = ScannedUntilFound(device.queueFamilies)

-----------------------------------------------------------------------------
\* The parameters createSwapChain negotiates (Engine.cpp:378-445) and the
\* sample count of the attachments.  Each choice is a function of what the
\* surface or the device reports; a behaviour applies one of them to one
\* input and `applied` keeps the application.

\* Longest list of formats or of present modes a surface reports here.
MaxCandidates == 3

VK_FORMAT_UNDEFINED == "VK_FORMAT_UNDEFINED"
VK_FORMAT_B8G8R8A8_UNORM == "VK_FORMAT_B8G8R8A8_UNORM"
VK_FORMAT_R8G8B8A8_UNORM == "VK_FORMAT_R8G8B8A8_UNORM"
VK_COLOR_SPACE_SRGB_NONLINEAR_KHR == "VK_COLOR_SPACE_SRGB_NONLINEAR_KHR"
VK_COLOR_SPACE_EXTENDED_SRGB_LINEAR_EXT == "VK_COLOR_SPACE_EXTENDED_SRGB_LINEAR_EXT"

\* VkSurfaceFormatKHR values a surface reports.
SurfaceFormats ==
    [format : {VK_FORMAT_UNDEFINED, VK_FORMAT_B8G8R8A8_UNORM, VK_FORMAT_R8G8B8A8_UNORM},
     colorSpace : {VK_COLOR_SPACE_SRGB_NONLINEAR_KHR, VK_COLOR_SPACE_EXTENDED_SRGB_LINEAR_EXT}]

\* The lists are not empty: isDeviceSuitable refused a device whose surface
\* reports no format or no present mode.
FormatLists == SeqsOf(SurfaceFormats, MaxCandidates) \ {<<>>}

RECURSIVE FormatLoop(_, _)
\* The loop of chooseSwapSurfaceFormat (lines 1445-1452) from position i on,
\* and the fall-back of line 1454 once the list is exhausted.
FormatLoop(availableFormats, i) ==
    IF i > Len(availableFormats)
      THEN availableFormats[1]
      ELSE IF /\ availableFormats[i].format = VK_FORMAT_B8G8R8A8_UNORM
              /\ availableFormats[i].colorSpace = VK_COLOR_SPACE_SRGB_NONLINEAR_KHR
             THEN availableFormats[i]
             ELSE FormatLoop(availableFormats, i + 1)

chooseSwapSurfaceFormat_FirstOnly(availableFormats) ==
    IF Len(availableFormats) = 1 /\ availableFormats[1].format = VK_FORMAT_UNDEFINED
      THEN [format |-> VK_FORMAT_B8G8R8A8_UNORM,
            colorSpace |-> VK_COLOR_SPACE_SRGB_NONLINEAR_KHR]
      ELSE availableFormats[1]

\* Engine::chooseSwapSurfaceFormat (lines 1437-1455).
chooseSwapSurfaceFormat(availableFormats) ==
    IF Len(availableFormats) = 1 /\ availableFormats[1].format = VK_FORMAT_UNDEFINED
      THEN [format |-> VK_FORMAT_B8G8R8A8_UNORM,
            colorSpace |-> VK_COLOR_SPACE_SRGB_NONLINEAR_KHR]
      ELSE FormatLoop(availableFormats, 1)

VK_PRESENT_MODE_IMMEDIATE_KHR == "VK_PRESENT_MODE_IMMEDIATE_KHR"
VK_PRESENT_MODE_MAILBOX_KHR == "VK_PRESENT_MODE_MAILBOX_KHR"
VK_PRESENT_MODE_FIFO_KHR == "VK_PRESENT_MODE_FIFO_KHR"
VK_PRESENT_MODE_FIFO_RELAXED_KHR == "VK_PRESENT_MODE_FIFO_RELAXED_KHR"

PresentModes ==
    {VK_PRESENT_MODE_IMMEDIATE_KHR, VK_PRESENT_MODE_MAILBOX_KHR,
     VK_PRESENT_MODE_FIFO_KHR, VK_PRESENT_MODE_FIFO_RELAXED_KHR}

PresentModeLists == SeqsOf(PresentModes, MaxCandidates) \ {<<>>}

RECURSIVE PresentModeLoop(_, _, _)
\* The loop of chooseSwapPresentMode (lines 1465-1475) from position i on:
\* MAILBOX returns at once, IMMEDIATE is remembered, and line 1476 hands
\* back what was remembered.
PresentModeLoop(availableModes, i, bestmode) ==
    IF i > Len(availableModes)
      THEN bestmode
      ELSE IF availableModes[i] = VK_PRESENT_MODE_MAILBOX_KHR
             THEN availableModes[i]
             ELSE PresentModeLoop(
                      availableModes, i + 1,
                      IF availableModes[i] = VK_PRESENT_MODE_IMMEDIATE_KHR
                        THEN availableModes[i]
                        ELSE bestmode)

chooseSwapPresentMode_ImmediateFirst(availableModes) ==
    LET offered == {availableModes[i] : i \in DOMAIN availableModes}
    IN  IF VK_PRESENT_MODE_IMMEDIATE_KHR \in offered THEN VK_PRESENT_MODE_IMMEDIATE_KHR
        ELSE IF VK_PRESENT_MODE_MAILBOX_KHR \in offered THEN VK_PRESENT_MODE_MAILBOX_KHR
        ELSE VK_PRESENT_MODE_FIFO_KHR

\* Engine::chooseSwapPresentMode (lines 1459-1477); bestmode starts as FIFO.
chooseSwapPresentMode(availableModes) ==
    PresentModeLoop(availableModes, 1, VK_PRESENT_MODE_FIFO_KHR)

\* std::numeric_limits<uint32_t>::max() (line 1481), the value no size has.
\* It is only compared for equality; the largest integer TLC represents
\* stands for 0xFFFFFFFF.
UINT32_MAX == 2147483647

\* Values of one dimension: of the bounds a surface reports, and of the
\* window.  A window can be smaller or larger than every bound.
BoundDims == {64, 100, 4096}
WindowDims == {10, 100, 8000}
WindowExtents == WindowDims \X WindowDims

\* currentExtent: the special value (both dimensions 0xFFFFFFFF) or a size.
CurrentExtents == {<<UINT32_MAX, UINT32_MAX>>} \cup (BoundDims \X {64, 100})

\* VkSurfaceCapabilitiesKHR: the bounds are ordered in each dimension,
\* minImageCount is at least one, and maxImageCount is 0 (no limit) or at
\* least minImageCount.
SurfaceCapabilities ==
    {c \in [currentExtent : CurrentExtents,
            minImageExtent : BoundDims \X BoundDims,
            maxImageExtent : BoundDims \X BoundDims,
            minImageCount : 1 .. MaxImages,
            maxImageCount : 0 .. (MaxImages + 1)] :
        /\ c.minImageExtent[1] <= c.maxImageExtent[1]
        /\ c.minImageExtent[2] <= c.maxImageExtent[2]
        /\ c.maxImageCount = 0 \/ c.maxImageCount >= c.minImageCount}

Min(a, b) == IF b < a THEN b ELSE a
Max(a, b) == IF a < b THEN b ELSE a

chooseSwapExtent_NoLowerBound(capabilities) ==
    IF capabilities.currentExtent[1] # UINT32_MAX
      THEN capabilities.currentExtent
      ELSE <<Min(capabilities.maxImageExtent[1], m_windowExtent[1]),
             Min(capabilities.maxImageExtent[2], m_windowExtent[2])>>

\* Engine::chooseSwapExtent (lines 1479-1495); an extent is <<width, height>>.
chooseSwapExtent(capabilities) ==
    IF capabilities.currentExtent[1] # UINT32_MAX
      THEN capabilities.currentExtent
      ELSE <<Max(capabilities.minImageExtent[1],
                 Min(capabilities.maxImageExtent[1], m_windowExtent[1])),
             Max(capabilities.minImageExtent[2],
                 Min(capabilities.maxImageExtent[2], m_windowExtent[2]))>>

ImageCount_Unclamped(capabilities) ==
    capabilities.minImageCount + 1

\* createSwapChain, lines 388-394: `imageCount`.  The counts a surface
\* reports are far from the width of uint32_t, so the sum does not wrap.
ImageCount(capabilities) ==
    LET imageCount == capabilities.minImageCount + 1
    IN  IF capabilities.maxImageCount > 0 /\ imageCount > capabilities.maxImageCount
          THEN capabilities.maxImageCount
          ELSE imageCount

\* VkSampleCountFlagBits: the value of a flag is the sample count.
SampleCountBits == {1, 2, 4, 8, 16, 32, 64}

RECURSIVE MaskOf(_)
\* The VkSampleCountFlags value with exactly the flags of `bits` set.
MaskOf(bits) ==
    IF bits = {} THEN 0
    ELSE LET b == CHOOSE x \in bits : TRUE IN b + MaskOf(bits \ {b})

\* counts & bit
HasBit(counts, bit) == (counts \div bit) % 2 = 1

\* Sample-count limits of a device: 1 and 4 samples are always supported.
SampleMasks == {MaskOf(bits \cup {1, 4}) : bits \in SUBSET SampleCountBits}

\* VkPhysicalDeviceLimits, the two fields getMaxUsableSampleCount reads.
DeviceLimits ==
    [framebufferColorSampleCounts : SampleMasks,
     framebufferDepthSampleCounts : SampleMasks]

\* Engine::getMaxUsableSampleCount (lines 1311-1332); utils.cpp:33-64 is the
\* same function.  std::min compares the two masks as numbers.
getMaxUsableSampleCount(limits) ==
    LET counts == Min(limits.framebufferColorSampleCounts,
                      limits.framebufferDepthSampleCounts)
    IN  IF HasBit(counts, 32) THEN 32
        ELSE IF HasBit(counts, 16) THEN 16
        ELSE IF HasBit(counts, 8) THEN 8
        ELSE IF HasBit(counts, 4) THEN 4
        ELSE IF HasBit(counts, 2) THEN 2
        ELSE 1

\* The state in which createSwapChain runs: a device has been selected and
\* nothing of the swapchain exists.  The window has any of the sizes.
ChooseInit ==
    /\ pc = "createSwapChain"
    /\ m_currentFrame = 0
    /\ m_framebufferResize = FALSE
    /\ m_windowExtent \in WindowExtents
    /\ modelModified = FALSE
    /\ m_inFlightFences = [s \in Slots |-> FALSE]
    /\ m_imageAvailableSemaphore = [s \in Slots |-> FALSE]
    /\ m_renderFinishedSemaphore = [s \in Slots |-> FALSE]
    /\ m_swapchainData = [images |-> 0, imageViews |-> 0, framebuffers |-> 0]
    /\ m_commandBuffers = <<>>
    /\ m_commandBufferSecondary = <<>>
    /\ m_uniformBuffers = 0
    /\ imageIndex = 0
    /\ acquireResult = NoResult
    /\ submitResult = NoResult
    /\ presentResult = NoResult
    /\ queue = {}
    /\ acquirePending = {}
    /\ imageReady = [s \in Slots |-> FALSE]
    /\ rendered = [s \in Slots |-> FALSE]
    /\ trace = <<>>
    /\ calls = 0
    /\ entryFrame = 0
    /\ entryResize = FALSE
    /\ slotCmd = [s \in Slots |-> -1]
    /\ touch = NoTouch
    /\ m_isCleaned = FALSE
    /\ m_indices = [graphicsFamily |-> 0, presentingFamily |-> 0, transferFamily |-> -1]
    /\ teardown = NoTeardown
    /\ deviceCount = 1
    /\ deviceIndex = 1
    /\ device = NoDevice
    /\ suitIndices = NoIndices
    /\ m_physicalDevice = 1
    /\ passedOver = FALSE
    /\ applied = NoChoice
    /\ m_graphicsQueue = GetDeviceQueue(m_indices.graphicsFamily)
    /\ m_presentQueue = GetDeviceQueue(m_indices.presentingFamily)
    /\ m_transfertQueue = GetDeviceQueue(m_indices.transferFamily)
    /\ m_commandPool = Indeterminate
    /\ m_commandPoolTransfert = Indeterminate
    /\ m_mesh = LoadedMesh
    /\ m_meshData = [vertexBuffer |-> Indeterminate, indexBuffer |-> Indeterminate]
    /\ stagingBuffer = VK_NULL_HANDLE
    /\ copy = NoCopy
    /\ steps = <<>>
    /\ m_resources = {}
    /\ m_size = 0

\* Everything but `applied`.
chosenVars ==
    <<pc, engineVars, syncVars, swapVars, localVars, gpuVars, callVars, ghostVars,
      m_isCleaned, m_indices, selVars, teardown, queueVars, poolVars, uploadVars,
      memoryPoolVars>>

Application(function, input, result) ==
    [function |-> function, input |-> input, result |-> result]

\* createSwapChain, line 384, for the formats the surface reports.
ChooseSurfaceFormat ==
    /\ applied = NoChoice
    /\ \E availableFormats \in FormatLists :
          applied' = Application("chooseSwapSurfaceFormat", availableFormats,
                                 chooseSwapSurfaceFormat(availableFormats))
    /\ UNCHANGED chosenVars

\* createSwapChain, line 385, for the capabilities the surface reports.
ChooseExtent ==
    /\ applied = NoChoice
    /\ \E capabilities \in SurfaceCapabilities :
          applied' = Application("chooseSwapExtent", capabilities,
                                 chooseSwapExtent(capabilities))
    /\ UNCHANGED chosenVars

\* createSwapChain, line 386, for the present modes the surface reports.
ChoosePresentMode ==
    /\ applied = NoChoice
    /\ \E availableModes \in PresentModeLists :
          applied' = Application("chooseSwapPresentMode", availableModes,
                                 chooseSwapPresentMode(availableModes))
    /\ UNCHANGED chosenVars

\* createSwapChain, lines 388-394.
ChooseImageCount ==
    /\ applied = NoChoice
    /\ \E capabilities \in SurfaceCapabilities :
          applied' = Application("imageCount", capabilities, ImageCount(capabilities))
    /\ UNCHANGED chosenVars

\* pickPhysicalDevice, line 324, for the limits the device reports.
ChooseSampleCount ==
    /\ applied = NoChoice
    /\ \E limits \in DeviceLimits :
          applied' = Application("getMaxUsableSampleCount", limits,
                                 getMaxUsableSampleCount(limits))
    /\ UNCHANGED chosenVars

ChooseNext ==
    \/ ChooseSurfaceFormat
    \/ ChooseExtent
    \/ ChoosePresentMode
    \/ ChooseImageCount
    \/ ChooseSampleCount

ChooseSpec == ChooseInit /\ [][ChooseNext]_vars

-----------------------------------------------------------------------------
\* Properties of the swapchain parameters.

Offered(list) == {list[i] : i \in DOMAIN list}

PreferredFormat ==
    [format |-> VK_FORMAT_B8G8R8A8_UNORM, colorSpace |-> VK_COLOR_SPACE_SRGB_NONLINEAR_KHR]

\* C22: when the surface reports exactly one format and it is the undefined
\* sentinel the default (B8G8R8A8, sRGB nonlinear) is selected; otherwise,
\* when the list contains (B8G8R8A8, sRGB nonlinear) at any position, that
\* entry is selected; otherwise the first candidate is selected.
C22_SurfaceFormat ==
    applied.function = "chooseSwapSurfaceFormat" =>
        LET availableFormats == applied.input
        IN  applied.result =
                IF /\ Len(availableFormats) = 1
                   /\ availableFormats[1].format = VK_FORMAT_UNDEFINED
                  THEN PreferredFormat
                  ELSE IF PreferredFormat \in Offered(availableFormats)
                         THEN PreferredFormat
                         ELSE availableFormats[1]

\* The preferred entry is the last of three and is selected.
C22_Witness ==
    /\ applied.function = "chooseSwapSurfaceFormat"
    /\ Len(applied.input) = 3
    /\ applied.input[1] # PreferredFormat
    /\ applied.input[2] # PreferredFormat
    /\ applied.input[3] = PreferredFormat
    /\ applied.result = PreferredFormat

\* C23: for every list of present modes, in every order, MAILBOX is selected
\* when the list contains it; otherwise IMMEDIATE when the list contains it;
\* otherwise FIFO.
C23_PresentMode ==
    applied.function = "chooseSwapPresentMode" =>
        LET offered == Offered(applied.input)
        IN  applied.result =
                IF VK_PRESENT_MODE_MAILBOX_KHR \in offered
                  THEN VK_PRESENT_MODE_MAILBOX_KHR
                  ELSE IF VK_PRESENT_MODE_IMMEDIATE_KHR \in offered
                         THEN VK_PRESENT_MODE_IMMEDIATE_KHR
                         ELSE VK_PRESENT_MODE_FIFO_KHR

\* IMMEDIATE is met first and MAILBOX, met later, is selected.
C23_Witness ==
    /\ applied.function = "chooseSwapPresentMode"
    /\ applied.input =
         <<VK_PRESENT_MODE_IMMEDIATE_KHR, VK_PRESENT_MODE_FIFO_KHR, VK_PRESENT_MODE_MAILBOX_KHR>>
    /\ applied.result = VK_PRESENT_MODE_MAILBOX_KHR

Definite(extent) == extent # <<UINT32_MAX, UINT32_MAX>>

Clamp(x, lo, hi) == IF x < lo THEN lo ELSE IF x > hi THEN hi ELSE x

\* C24: when the surface reports a definite current extent it is used
\* verbatim; otherwise each dimension of the window extent is clamped into
\* the [min, max] bounds of the surface.  With bounds (64,64)-(4096,4096) a
\* window of (10,10) gives (64,64) and a window of (8000,8000) gives
\* (4096,4096).
C24_Extent ==
    applied.function = "chooseSwapExtent" =>
        LET capabilities == applied.input
            lo == capabilities.minImageExtent
            hi == capabilities.maxImageExtent
        IN  /\ Definite(capabilities.currentExtent) =>
                 applied.result = capabilities.currentExtent
            /\ ~Definite(capabilities.currentExtent) =>
                 /\ applied.result = <<Clamp(m_windowExtent[1], lo[1], hi[1]),
                                       Clamp(m_windowExtent[2], lo[2], hi[2])>>
                 /\ (lo = <<64, 64>> /\ hi = <<4096, 4096>> /\ m_windowExtent = <<10, 10>>)
                       => applied.result = <<64, 64>>
                 /\ (lo = <<64, 64>> /\ hi = <<4096, 4096>> /\ m_windowExtent = <<8000, 8000>>)
                       => applied.result = <<4096, 4096>>

\* No current extent, bounds (64,64)-(4096,4096), a window of (10,10).
C24_Witness ==
    /\ applied.function = "chooseSwapExtent"
    /\ ~Definite(applied.input.currentExtent)
    /\ applied.input.minImageExtent = <<64, 64>>
    /\ applied.input.maxImageExtent = <<4096, 4096>>
    /\ m_windowExtent = <<10, 10>>
    /\ applied.result = <<64, 64>>

\* C25: the requested image count is min(max(minImageCount + 1,
\* minImageCount), maxImageCount), a maxImageCount of 0 meaning no limit: it
\* is never below minImageCount and never above a non-zero maxImageCount.
C25_ImageCount ==
    applied.function = "imageCount" =>
        LET capabilities == applied.input
            wanted == Max(capabilities.minImageCount + 1, capabilities.minImageCount)
        IN  /\ applied.result =
                 IF capabilities.maxImageCount = 0
                   THEN wanted
                   ELSE Min(wanted, capabilities.maxImageCount)
            /\ applied.result >= capabilities.minImageCount
            /\ capabilities.maxImageCount # 0 =>
                 applied.result <= capabilities.maxImageCount

\* The surface allows exactly minImageCount images: the count is clamped.
C25_Witness ==
    /\ applied.function = "imageCount"
    /\ applied.input.maxImageCount = applied.input.minImageCount
    /\ applied.result = applied.input.minImageCount

\* Sample counts both masks have the flag of.
CommonSampleCounts(limits) ==
    {n \in {1, 2, 4, 8, 16, 32} :
        /\ HasBit(limits.framebufferColorSampleCounts, n)
        /\ HasBit(limits.framebufferDepthSampleCounts, n)}

\* C26: for every pair of color and depth sample-count masks the chosen
\* sample count is the largest of 32, 16, 8, 4, 2, 1 that both support.
C26_MaxCommonSampleCount ==
    applied.function = "getMaxUsableSampleCount" =>
        /\ applied.result \in CommonSampleCounts(applied.input)
        /\ \A n \in CommonSampleCounts(applied.input) : n <= applied.result

-----------------------------------------------------------------------------
\* The upload of the mesh: createCommandPool, createVertexBuffer and
\* createVertexIndexBuffer of initVulkan (Engine.cpp:137-161).  An upload is
\* cut where copyBuffer hands the copy to the queue; the queue runs it
\* concurrently and vkQueueWaitIdle blocks the thread until it has.

MaxVertices == 2
MaxFaces == 2

\* Faces a mesh is made of here.
FaceValues == {<<0, 1, 0>>, <<1, 0, 1>>}

\* Meshes loadScene can hand over: at least one vertex and one face.
Meshes ==
    [vertices : SeqsOf(VertexValues, MaxVertices) \ {<<>>},
     faces : SeqsOf(FaceValues, MaxFaces) \ {<<>>}]

\* Mappings isDeviceSuitable accepts (line 1512-1525): those of some device
\* with a graphics and a presenting family.
AcceptedIndices ==
    {indices \in {findQueueFamilies(q) : q \in SeqsOf(QueueFamilies, MaxFamilies)} :
        isComplete(indices)}

\* utils::createBuffer (utils.cpp:85-133): a buffer of `size` bytes bound to
\* fresh memory, whose content is not defined yet.
createBuffer(size) ==
    [size |-> size, data |-> [k \in 1 .. (size \div sizeofWord) |-> Undefined]]

memcpy_SkipsLast(data, src, n) ==
    [k \in 1 .. Len(data) |-> IF k < n \div sizeofWord THEN src[k] ELSE data[k]]

\* memcpy and the copy of vkCmdCopyBuffer at offset 0: the first n bytes of
\* `data` become the first n bytes of `src`.
memcpy(data, src, n) ==
    [k \in 1 .. Len(data) |-> IF k <= n \div sizeofWord THEN src[k] ELSE data[k]]

\* Calls of one upload, in the order of createVertexBuffer (lines 903-936)
\* with copyBuffer and endSingleTimeCommands (utils.cpp:205-218, 307-320).
StagingCalls ==
    <<"createBuffer staging", "vkMapMemory", "memcpy", "vkUnmapMemory",
      "createBuffer final", "vkCmdCopyBuffer", "vkQueueSubmit">>
ReleaseCalls ==
    <<"vkQueueWaitIdle", "vkFreeCommandBuffers", "vkDestroyBuffer staging",
      "vkFreeMemory staging">>

StagingDestroyed ==
    \E k \in DOMAIN steps : steps[k] = "vkDestroyBuffer staging"

\* Lines 897-933 and 943-979: the staging buffer is created and filled, the
\* final buffer is created and copyBuffer submits the copy on the queue and
\* the pool of the transfer getters.
StageAndSubmit(src, bufferSize, target) ==
    /\ stagingBuffer' =
         [createBuffer(bufferSize) EXCEPT !.data = memcpy(@, src, bufferSize)]
    /\ m_meshData' = [m_meshData EXCEPT ![target] = createBuffer(bufferSize)]
    /\ copy' = [commandPool |-> getCommandPoolTransfer,
                queue |-> getTransfertQueue,
                srcBuffer |-> "stagingBuffer",
                dstBuffer |-> target,
                size |-> bufferSize,
                pending |-> TRUE]
    /\ steps' = StagingCalls

QueueIdle_NoWait == TRUE

\* vkQueueWaitIdle (utils.cpp:215) returns once the queue has run the copy.
QueueIdle == ~copy.pending

\* utils.cpp:215-217 and lines 935-936: the wait, then the command buffer
\* and the staging buffer are released.
WaitAndRelease ==
    /\ QueueIdle
    /\ steps' = steps \o ReleaseCalls
    /\ UNCHANGED <<stagingBuffer, m_meshData, copy>>

\* What frames, selection and swapchain choices leave alone during uploads.
uploadFrame ==
    <<engineVars, syncVars, swapVars, localVars, gpuVars, callVars, ghostVars,
      m_isCleaned, m_indices, selVars, teardown, queueVars, applied, memoryPoolVars>>

\* Engine::createCommandPool (lines 758-778).
createCommandPool ==
    /\ pc = "createCommandPool"
    /\ m_commandPool' = CommandPool(m_indices.graphicsFamily)
    /\ m_commandPoolTransfert' =
         IF transferAvailable(m_indices)
           THEN CommandPool(m_indices.transferFamily)
           ELSE m_commandPoolTransfert
    /\ pc' = "createVertexBuffer"
    /\ UNCHANGED <<uploadFrame, uploadVars>>

\* Engine::createVertexBuffer (lines 894-938) up to the submission.
createVertexBuffer ==
    /\ pc = "createVertexBuffer"
    /\ StageAndSubmit(VertexBytes(m_mesh.vertices),
                      sizeofVertex * Len(m_mesh.vertices), "vertexBuffer")
    /\ pc' = "copyVertexBuffer"
    /\ UNCHANGED <<uploadFrame, poolVars, m_mesh>>

\* Engine::createVertexBuffer from vkQueueWaitIdle to its return.
VertexBufferCreated ==
    /\ pc = "copyVertexBuffer"
    /\ WaitAndRelease
    /\ pc' = "createVertexIndexBuffer"
    /\ UNCHANGED <<uploadFrame, poolVars, m_mesh>>

\* Engine::createVertexIndexBuffer (lines 940-984) up to the submission.
createVertexIndexBuffer ==
    /\ pc = "createVertexIndexBuffer"
    /\ StageAndSubmit(FaceBytes(m_mesh.faces),
                      sizeofFace * Len(m_mesh.faces), "indexBuffer")
    /\ pc' = "copyIndexBuffer"
    /\ UNCHANGED <<uploadFrame, poolVars, m_mesh>>

\* Engine::createVertexIndexBuffer from vkQueueWaitIdle to its return.
IndexBufferCreated ==
    /\ pc = "copyIndexBuffer"
    /\ WaitAndRelease
    /\ pc' = "createUniformBuffer"
    /\ UNCHANGED <<uploadFrame, poolVars, m_mesh>>

\* The queue runs the copy of vkCmdCopyBuffer (utils.cpp:312-317).  A copy
\* out of a destroyed buffer reads whatever its memory holds by then.
ExecuteCopy ==
    /\ copy.pending
    /\ LET dst == m_meshData[copy.dstBuffer]
           src == IF StagingDestroyed
                    THEN [k \in 1 .. Len(stagingBuffer.data) |-> Undefined]
                    ELSE stagingBuffer.data
       IN  m_meshData' =
               [m_meshData EXCEPT ![copy.dstBuffer] =
                   [dst EXCEPT !.data = memcpy(@, src, copy.size)]]
    /\ copy' = [copy EXCEPT !.pending = FALSE]
    /\ UNCHANGED <<pc, uploadFrame, poolVars, m_mesh, stagingBuffer, steps>>

\* The state createCommandPool runs in: a device has been selected with any
\* accepted mapping, its queues are known and any mesh has been loaded.
UploadInit ==
    /\ pc = "createCommandPool"
    /\ m_currentFrame = 0
    /\ m_framebufferResize = FALSE
    /\ m_windowExtent = <<1, 1>>
    /\ modelModified = FALSE
    /\ m_inFlightFences = [s \in Slots |-> FALSE]
    /\ m_imageAvailableSemaphore = [s \in Slots |-> FALSE]
    /\ m_renderFinishedSemaphore = [s \in Slots |-> FALSE]
    /\ m_swapchainData = [images |-> MinImages, imageViews |-> MinImages, framebuffers |-> 0]
    /\ m_commandBuffers = <<>>
    /\ m_commandBufferSecondary = <<>>
    /\ m_uniformBuffers = 0
    /\ imageIndex = 0
    /\ acquireResult = NoResult
    /\ submitResult = NoResult
    /\ presentResult = NoResult
    /\ queue = {}
    /\ acquirePending = {}
    /\ imageReady = [s \in Slots |-> FALSE]
    /\ rendered = [s \in Slots |-> FALSE]
    /\ trace = <<>>
    /\ calls = 0
    /\ entryFrame = 0
    /\ entryResize = FALSE
    /\ slotCmd = [s \in Slots |-> -1]
    /\ touch = NoTouch
    /\ m_isCleaned = FALSE
    /\ m_indices \in AcceptedIndices
    /\ teardown = NoTeardown
    /\ deviceCount = 1
    /\ deviceIndex = 1
    /\ device = NoDevice
    /\ suitIndices = NoIndices
    /\ m_physicalDevice = 1
    /\ passedOver = FALSE
    /\ applied = NoChoice
    /\ m_graphicsQueue = GetDeviceQueue(m_indices.graphicsFamily)
    /\ m_presentQueue = GetDeviceQueue(m_indices.presentingFamily)
    /\ m_transfertQueue = GetDeviceQueue(m_indices.transferFamily)
    /\ m_commandPool = Indeterminate
    /\ m_commandPoolTransfert = Indeterminate
    /\ m_mesh \in Meshes
    /\ m_meshData = [vertexBuffer |-> Indeterminate, indexBuffer |-> Indeterminate]
    /\ stagingBuffer = VK_NULL_HANDLE
    /\ copy = NoCopy
    /\ steps = <<>>
    /\ m_resources = {}
    /\ m_size = 0

UploadNext ==
    \/ createCommandPool
    \/ createVertexBuffer
    \/ VertexBufferCreated
    \/ createVertexIndexBuffer
    \/ IndexBufferCreated
    \/ ExecuteCopy

UploadSpec == UploadInit /\ [][UploadNext]_vars

-----------------------------------------------------------------------------
\* Properties of the upload.

\* A transfer family distinct from the graphics family was found.
DedicatedTransfer ==
    m_indices.transferFamily >= 0 /\ m_indices.transferFamily # m_indices.graphicsFamily

\* C21: getTransfertQueue and getCommandPoolTransfer return the transfer
\* queue and the transfer pool when a transfer family distinct from the
\* graphics family was found and the graphics queue and the graphics pool
\* otherwise, so the queue and the pool an upload uses belong to the same
\* queue family.
C21_TransferFallback ==
    /\ getTransfertQueue =
         IF DedicatedTransfer THEN m_transfertQueue ELSE m_graphicsQueue
    /\ getCommandPoolTransfer =
         IF DedicatedTransfer THEN m_commandPoolTransfert ELSE m_commandPool
    /\ copy.dstBuffer # "none" =>
         /\ copy.queue.family = copy.commandPool.queueFamilyIndex
         /\ copy.queue.family =
              IF DedicatedTransfer
                THEN m_indices.transferFamily ELSE m_indices.graphicsFamily

\* An upload went through the queue and the pool of a dedicated transfer
\* family.
C21_Witness ==
    /\ DedicatedTransfer
    /\ copy.dstBuffer = "indexBuffer"
    /\ copy.queue = m_transfertQueue
    /\ copy.commandPool = m_commandPoolTransfert
    /\ copy.commandPool.queueFamilyIndex = m_indices.transferFamily

IsPrefix(s, t) == Len(s) <= Len(t) /\ \A k \in DOMAIN s : s[k] = t[k]

UploadReturned == pc \in {"createVertexIndexBuffer", "createUniformBuffer"}

\* C28: in every upload the staging buffer is created, the mesh data is
\* mapped, copied and unmapped, the device-local buffer is created, the copy
\* is submitted, the thread blocks until the copy has completed, and only
\* then the staging buffer is destroyed and its memory freed; the staging
\* buffer is never destroyed while the copy is pending and is always
\* destroyed before the upload returns.
C28_UploadOrder ==
    /\ IsPrefix(steps, StagingCalls \o ReleaseCalls)
    /\ (\E k \in DOMAIN steps : steps[k] = "vkQueueWaitIdle") => ~copy.pending
    /\ ~(StagingDestroyed /\ copy.pending)
    /\ UploadReturned => (steps = StagingCalls \o ReleaseCalls /\ StagingDestroyed)

\* The copy has completed, the thread is still blocked and the staging
\* buffer still exists.
C28_Witness ==
    /\ pc = "copyVertexBuffer"
    /\ ~copy.pending
    /\ steps = StagingCalls
    /\ ~StagingDestroyed

-----------------------------------------------------------------------------
\* What is recorded into the command buffers and which uniform buffers a
\* frame writes.  The recording is a function of the swapchain size, of the
\* mesh and of the overlay's draw data; a behaviour applies it once.

\* Engine::createDescriptorSets (lines 1062-1110): set i is written with
\* m_uniformBuffers[i].
createDescriptorSets(images) == [i \in 0 .. (images - 1) |-> [buffer |-> i]]

Command(cmd, arg) == [cmd |-> cmd, arg |-> arg]

\* clearValues of updatePrimaryCommandBuffers (lines 1196-1198).
ClearValues == [color |-> <<255, 153, 51, 255>>, depth |-> 1, stencil |-> 0]

\* Sizes ImGui reports in one dimension of DisplaySize.
DisplayDims == {-1, 0, 2}
DrawData == [DisplaySize : DisplayDims \X DisplayDims]

is_minimized_WidthOnly(draw_data) == draw_data.DisplaySize[1] <= 0

\* Line 1219.
is_minimized(draw_data) ==
    draw_data.DisplaySize[1] <= 0 \/ draw_data.DisplaySize[2] <= 0

\* Engine::createSecondaryCommandBuffers (lines 1116-1172): the commands of
\* the secondary buffer of each image.  Every buffer binds &m_descriptorSets[0]
\* (line 1161).
createSecondaryCommandBuffers(m_descriptorSets) ==
    [i \in DOMAIN m_commandBuffers |->
        <<Command("vkBeginCommandBuffer", [level |-> "secondary", framebuffer |-> i]),
          Command("vkCmdSetViewport", "m_viewport"),
          Command("vkCmdBindPipeline", "m_graphicsPipeline"),
          Command("vkCmdBindVertexBuffers", "vertexBuffer"),
          Command("vkCmdBindIndexBuffer", "indexBuffer"),
          Command("vkCmdBindDescriptorSets", m_descriptorSets[0]),
          Command("vkCmdDrawIndexed", Len(m_mesh.faces) * 3),
          Command("vkEndCommandBuffer", [level |-> "secondary"])>>]

\* Engine::updatePrimaryCommandBuffers (lines 1187-1230): the commands of
\* the primary buffer of each image.
updatePrimaryCommandBuffers(draw_data) ==
    [i \in DOMAIN m_commandBuffers |->
        <<Command("vkBeginCommandBuffer", [level |-> "primary"]),
          Command("vkCmdBeginRenderPass", [framebuffer |-> i, clearValues |-> ClearValues]),
          Command("vkCmdExecuteCommands", i),
          Command("vkCmdNextSubpass", "inline")>>
        \o (IF ~is_minimized(draw_data)
              THEN <<Command("ImGui_ImplVulkan_RenderDrawData", draw_data)>>
              ELSE <<>>)
        \o <<Command("vkCmdEndRenderPass", "none"),
             Command("vkEndCommandBuffer", [level |-> "primary"])>>]

\* Engine::updateUniformBuffer (lines 1009-1036): the uniform buffers the
\* call maps and writes.  The loop of line 1030 does not read imageIndex.
updateUniformBuffer(index) ==
    {i \in 0 .. (m_swapchainData.imageViews - 1) : TRUE}

\* The state initVulkan reaches at line 153: the swapchain of any size, the
\* mesh uploaded, the uniform buffers created, the primary buffers
\* allocated and nothing recorded.
RecordInit ==
    /\ pc = "createSecondaryCommandBuffers"
    /\ m_currentFrame = 0
    /\ m_framebufferResize = FALSE
    /\ m_windowExtent = <<1, 1>>
    /\ modelModified = FALSE
    /\ m_inFlightFences = [s \in Slots |-> FALSE]
    /\ m_imageAvailableSemaphore = [s \in Slots |-> FALSE]
    /\ m_renderFinishedSemaphore = [s \in Slots |-> FALSE]
    /\ \E n \in ImageCounts :
          /\ m_swapchainData = [images |-> n, imageViews |-> n, framebuffers |-> n]
          /\ m_commandBuffers = [i \in 0 .. (n - 1) |-> "allocated"]
          /\ m_uniformBuffers = n
    /\ m_commandBufferSecondary = <<>>
    /\ imageIndex = 0
    /\ acquireResult = NoResult
    /\ submitResult = NoResult
    /\ presentResult = NoResult
    /\ queue = {}
    /\ acquirePending = {}
    /\ imageReady = [s \in Slots |-> FALSE]
    /\ rendered = [s \in Slots |-> FALSE]
    /\ trace = <<>>
    /\ calls = 0
    /\ entryFrame = 0
    /\ entryResize = FALSE
    /\ slotCmd = [s \in Slots |-> -1]
    /\ touch = NoTouch
    /\ m_isCleaned = FALSE
    /\ m_indices = [graphicsFamily |-> 0, presentingFamily |-> 0, transferFamily |-> -1]
    /\ teardown = NoTeardown
    /\ deviceCount = 1
    /\ deviceIndex = 1
    /\ device = NoDevice
    /\ suitIndices = NoIndices
    /\ m_physicalDevice = 1
    /\ passedOver = FALSE
    /\ applied = NoChoice
    /\ m_graphicsQueue = GetDeviceQueue(m_indices.graphicsFamily)
    /\ m_presentQueue = GetDeviceQueue(m_indices.presentingFamily)
    /\ m_transfertQueue = GetDeviceQueue(m_indices.transferFamily)
    /\ m_commandPool = CommandPool(m_indices.graphicsFamily)
    /\ m_commandPoolTransfert = Indeterminate
    /\ m_mesh \in Meshes
    /\ m_meshData = [vertexBuffer |-> DeviceLocal(VertexBytes(m_mesh.vertices)),
                     indexBuffer |-> DeviceLocal(FaceBytes(m_mesh.faces))]
    /\ stagingBuffer = VK_NULL_HANDLE
    /\ copy = NoCopy
    /\ steps = <<>>
    /\ m_resources = {}
    /\ m_size = 0

\* What a recording leaves alone.
recordFrame ==
    <<engineVars, syncVars, m_swapchainData, m_uniformBuffers, localVars, gpuVars,
      callVars, ghostVars, m_isCleaned, m_indices, selVars, teardown, queueVars,
      poolVars, uploadVars, memoryPoolVars>>

\* createSecondaryCommandBuffers at the end of initVulkan (line 155) and the
\* updatePrimaryCommandBuffers of the first drawFrame (line 80), for the
\* draw data the overlay holds then.
RecordCommandBuffers ==
    /\ pc = "createSecondaryCommandBuffers"
    /\ applied = NoChoice
    /\ \E draw_data \in DrawData :
          applied' =
              Application("record", draw_data,
                  [secondary |->
                       createSecondaryCommandBuffers(
                           createDescriptorSets(m_swapchainData.images)),
                   primary |-> updatePrimaryCommandBuffers(draw_data)])
    /\ m_commandBufferSecondary' = [i \in DOMAIN m_commandBuffers |-> "recorded"]
    /\ m_commandBuffers' = [i \in DOMAIN m_commandBuffers |-> "recorded"]
    /\ pc' = "recorded"
    /\ UNCHANGED recordFrame

\* updateUniformBuffer(imageIndex) of drawFrame (line 79) for an acquired
\* image index.
UpdateUniformBuffer ==
    /\ pc = "createSecondaryCommandBuffers"
    /\ applied = NoChoice
    /\ \E index \in 0 .. (m_swapchainData.images - 1) :
          applied' = Application("updateUniformBuffer", index, updateUniformBuffer(index))
    /\ pc' = "updated"
    /\ UNCHANGED <<recordFrame, m_commandBuffers, m_commandBufferSecondary>>

RecordNext ==
    \/ RecordCommandBuffers
    \/ UpdateUniformBuffer

RecordSpec == RecordInit /\ [][RecordNext]_vars

-----------------------------------------------------------------------------
\* Claims about the recorded commands.

Recorded == applied.function = "record"

\* The commands the primary buffer of image i runs: its own, with the
\* vkCmdExecuteCommands replaced by the body of the secondary buffer it names.
RECURSIVE Flatten(_, _)
Flatten(primary, secondary) ==
    IF primary = <<>> THEN <<>>
    ELSE (IF Head(primary).cmd = "vkCmdExecuteCommands"
            THEN SubSeq(secondary[Head(primary).arg], 2,
                        Len(secondary[Head(primary).arg]) - 1)
            ELSE <<Head(primary)>>)
         \o Flatten(Tail(primary), secondary)

CommandsOfImage(i) == Flatten(applied.result.primary[i], applied.result.secondary)

ClaimedCommands ==
    {"vkBeginCommandBuffer", "vkCmdBeginRenderPass", "vkCmdBindPipeline",
     "vkCmdBindVertexBuffers", "vkCmdBindIndexBuffer", "vkCmdBindDescriptorSets",
     "vkCmdDrawIndexed", "vkCmdNextSubpass", "ImGui_ImplVulkan_RenderDrawData",
     "vkCmdEndRenderPass", "vkEndCommandBuffer"}

IsClaimed(command) == command.cmd \in ClaimedCommands

NamesOf(commands) == [k \in DOMAIN commands |-> commands[k].cmd]

OverlayVisible == applied.input.DisplaySize[1] > 0 /\ applied.input.DisplaySize[2] > 0

ArgOf(commands, cmd) ==
    {commands[k].arg : k \in {j \in DOMAIN commands : commands[j].cmd = cmd}}

\* C29: every per-image command buffer runs, in this order, begin buffer,
\* begin render pass with the clear values, bind pipeline, bind vertex
\* buffer, bind index buffer, bind descriptor set, an indexed draw over all
\* triangle indices, next sub-pass, the overlay's draw data, end render
\* pass, end buffer; the overlay's draw data is recorded exactly when the
\* overlay's display size is positive in both dimensions.
C29_RecordingOrder ==
    Recorded =>
        \A i \in DOMAIN applied.result.primary :
            /\ NamesOf(SelectSeq(CommandsOfImage(i), IsClaimed)) =
                   <<"vkBeginCommandBuffer", "vkCmdBeginRenderPass", "vkCmdBindPipeline",
                     "vkCmdBindVertexBuffers", "vkCmdBindIndexBuffer",
                     "vkCmdBindDescriptorSets", "vkCmdDrawIndexed", "vkCmdNextSubpass">>
                   \o (IF OverlayVisible THEN <<"ImGui_ImplVulkan_RenderDrawData">> ELSE <<>>)
                   \o <<"vkCmdEndRenderPass", "vkEndCommandBuffer">>
            /\ ArgOf(CommandsOfImage(i), "vkCmdBeginRenderPass") =
                   {[framebuffer |-> i, clearValues |-> ClearValues]}
            /\ ArgOf(CommandsOfImage(i), "vkCmdDrawIndexed") = {3 * Len(m_mesh.faces)}
            /\ ArgOf(CommandsOfImage(i), "ImGui_ImplVulkan_RenderDrawData") =
                   (IF OverlayVisible THEN {applied.input} ELSE {})

C29_Witness ==
    /\ Recorded
    /\ applied.input.DisplaySize = <<2, 0>>
    /\ m_swapchainData.images >= 2
    /\ Len(m_mesh.faces) = 2
    /\ Len(CommandsOfImage(1)) = 11

\* C30: the commands recorded for image i bind the descriptor set that
\* refers to uniform buffer i, and the uniform update of a frame writes the
\* uniform buffer of the acquired image index.
C30_UniformBufferOfImage ==
    /\ Recorded =>
          \A i \in DOMAIN applied.result.primary :
              \A set \in ArgOf(CommandsOfImage(i), "vkCmdBindDescriptorSets") :
                  set.buffer = i
    /\ applied.function = "updateUniformBuffer" => applied.input \in applied.result

-----------------------------------------------------------------------------
\* What createVertexBuffer does with the VkResult of each call it makes.
\* The effects of the calls are UploadSpec's; here every call returns a
\* result and the code either tests it or drops it.

VK_ERROR_OUT_OF_DEVICE_MEMORY == "VK_ERROR_OUT_OF_DEVICE_MEMORY"
VK_ERROR_DEVICE_LOST == "VK_ERROR_DEVICE_LOST"

CallResults == {VK_SUCCESS, VK_ERROR_OUT_OF_DEVICE_MEMORY, VK_ERROR_DEVICE_LOST}

\* A call whose result the code drops: execution always goes on.
Unchecked(res) == TRUE

\* The macro VK_CALL (assert.hpp:9-14): execution goes on past the call
\* exactly when the result is VK_SUCCESS; otherwise it throws.
VK_CALL(res) == res = VK_SUCCESS

ResultCall(call, kind, checked) == [call |-> call, kind |-> kind, checked |-> checked]

\* utils::createBuffer (utils.cpp:118-132).
createBufferCalls ==
    <<ResultCall("vkCreateBuffer", "create", TRUE),
      ResultCall("vkAllocateMemory", "create", TRUE),
      ResultCall("vkBindBufferMemory", "bind", FALSE)>>

\* utils::copyBuffer through beginSingleTimeCommands and
\* endSingleTimeCommands (utils.cpp:194-215): no result is tested.
copyBufferCalls ==
    <<ResultCall("vkAllocateCommandBuffers", "create", FALSE),
      ResultCall("vkBeginCommandBuffer", "record", FALSE),
      ResultCall("vkEndCommandBuffer", "record", FALSE),
      ResultCall("vkQueueSubmit", "submit", FALSE),
      ResultCall("vkQueueWaitIdle", "wait", FALSE)>>

\* The calls of Engine::createVertexBuffer that return a VkResult, in the
\* order of lines 903-932.
createVertexBufferCalls ==
    createBufferCalls
    \o <<ResultCall("vkMapMemory", "map", FALSE)>>
    \o createBufferCalls
    \o copyBufferCalls

\* Whether execution goes on past the call that returned res.
GoesOn(c, res) == IF c.checked THEN VK_CALL(res) ELSE Unchecked(res)

\* The state initVulkan reaches at line 148, before the vertex buffer.
ResultInit ==
    /\ pc = "createVertexBuffer"
    /\ m_currentFrame = 0
    /\ m_framebufferResize = FALSE
    /\ m_windowExtent = <<1, 1>>
    /\ modelModified = FALSE
    /\ m_inFlightFences = [s \in Slots |-> FALSE]
    /\ m_imageAvailableSemaphore = [s \in Slots |-> FALSE]
    /\ m_renderFinishedSemaphore = [s \in Slots |-> FALSE]
    /\ m_swapchainData = [images |-> MinImages, imageViews |-> MinImages,
                          framebuffers |-> MinImages]
    /\ m_commandBuffers = <<>>
    /\ m_uniformBuffers = 0
    /\ m_commandBufferSecondary = <<>>
    /\ imageIndex = 0
    /\ acquireResult = NoResult
    /\ submitResult = NoResult
    /\ presentResult = NoResult
    /\ queue = {}
    /\ acquirePending = {}
    /\ imageReady = [s \in Slots |-> FALSE]
    /\ rendered = [s \in Slots |-> FALSE]
    /\ trace = <<>>
    /\ calls = 0
    /\ entryFrame = 0
    /\ entryResize = FALSE
    /\ slotCmd = [s \in Slots |-> -1]
    /\ touch = NoTouch
    /\ m_isCleaned = FALSE
    /\ m_indices \in AcceptedIndices
    /\ teardown = NoTeardown
    /\ deviceCount = 1
    /\ deviceIndex = 1
    /\ device = NoDevice
    /\ suitIndices = NoIndices
    /\ m_physicalDevice = 1
    /\ passedOver = FALSE
    /\ applied = NoChoice
    /\ m_graphicsQueue = GetDeviceQueue(m_indices.graphicsFamily)
    /\ m_presentQueue = GetDeviceQueue(m_indices.presentingFamily)
    /\ m_transfertQueue = GetDeviceQueue(m_indices.transferFamily)
    /\ m_commandPool = CommandPool(m_indices.graphicsFamily)
    /\ m_commandPoolTransfert =
           IF transferAvailable(m_indices) THEN CommandPool(m_indices.transferFamily)
           ELSE Indeterminate
    /\ m_mesh = LoadedMesh
    /\ m_meshData = [vertexBuffer |-> Indeterminate, indexBuffer |-> Indeterminate]
    /\ stagingBuffer = VK_NULL_HANDLE
    /\ copy = NoCopy
    /\ steps = <<>>
    /\ m_resources = {}
    /\ m_size = 0

\* What the result handling leaves alone.
resultFrame ==
    <<engineVars, syncVars, swapVars, localVars, gpuVars, callVars,
      ghostVars, m_isCleaned, m_indices, selVars, teardown, queueVars, poolVars,
      m_mesh, m_meshData, stagingBuffer, copy, memoryPoolVars>>

\* The next call of createVertexBuffer returns.  `applied` keeps the first
\* result that is not VK_SUCCESS, with what became of it; the calls after an
\* ignored failure succeed.
CallReturns ==
    /\ pc = "createVertexBuffer"
    /\ Len(steps) < Len(createVertexBufferCalls)
    /\ LET c == createVertexBufferCalls[Len(steps) + 1]
       IN  \E res \in (IF applied = NoChoice THEN CallResults ELSE {VK_SUCCESS}) :
               /\ steps' = Append(steps, c.call)
               /\ applied' =
                      IF res = VK_SUCCESS THEN applied
                      ELSE Application(c.call, [kind |-> c.kind, res |-> res],
                                       IF GoesOn(c, res) THEN "ignored" ELSE "thrown")
               /\ pc' = IF GoesOn(c, res) THEN pc ELSE "thrown"
    /\ UNCHANGED resultFrame

\* createVertexBuffer returns to initVulkan (line 938).
UploadReturns ==
    /\ pc = "createVertexBuffer"
    /\ Len(steps) = Len(createVertexBufferCalls)
    /\ pc' = "createVertexIndexBuffer"
    /\ UNCHANGED <<resultFrame, applied, steps>>

ResultNext ==
    \/ CallReturns
    \/ UploadReturns

ResultSpec == ResultInit /\ [][ResultNext]_vars

\* A call returned a result that is not VK_SUCCESS.
Failed == applied.function \notin {"none"}

\* C31: a result other than VK_SUCCESS returned by a call that creates a
\* device object or submits to a queue is thrown, and nothing runs after
\* the failed call.
C31_FailureIsFatal ==
    (Failed /\ applied.input.kind \in {"create", "submit"}) =>
        /\ applied.result = "thrown"
        /\ pc = "thrown"
        /\ steps[Len(steps)] = applied.function

-----------------------------------------------------------------------------
\* The queue and the pool of the submissions.

\* The rendering submission of drawFrame: the buffer m_commandBuffers[imageIndex],
\* allocated from m_commandPool (createPrimaryCommandBuffer, line 1178), goes
\* to m_presentQueue (line 98).
drawFrameSubmission == [commandPool |-> m_commandPool, queue |-> m_presentQueue]

\* The pools exist: createCommandPool has run.
PoolsCreated == pc # "createCommandPool"

\* C32: every command buffer is submitted to a queue of the queue family its
\* command pool was created for, for every accepted device, those whose
\* graphics and presenting families differ included.
C32_SubmitToPoolFamily ==
    /\ PoolsCreated =>
          drawFrameSubmission.queue.family =
              drawFrameSubmission.commandPool.queueFamilyIndex
    /\ copy.dstBuffer # "none" => copy.queue.family = copy.commandPool.queueFamilyIndex

\* The families createLogicalDevice asks queues of: the std::set of line 336.
uniqueQueueFamilies(indices) ==
    {indices.graphicsFamily, indices.presentingFamily, indices.transferFamily}

\* C33: for every accepted device createLogicalDevice requests queues and
\* fetches queue handles only for queue family indices that are not negative.
C33_OnlyValidFamilies ==
    pc = "createSwapChain" =>
        /\ \A queueFamily \in uniqueQueueFamilies(m_indices) : queueFamily >= 0
        /\ m_graphicsQueue.family >= 0
        /\ m_presentQueue.family >= 0
        /\ m_transfertQueue.family >= 0

-----------------------------------------------------------------------------
\* The objects over a whole run.

\* The kinds of object a rebuild leaves live: it destroys and creates the
\* same kinds.
RebuildBalanced ==
    /\ ObjectsOf(teardown.events, "destroy") = ObjectsOf(teardown.events, "create")
    /\ \A i \in DOMAIN teardown.events :
          teardown.events[i] # Wait => Once(teardown.events, teardown.events[i])

\* C34: over createInstance, initVulkan, any resizeExtent and drawFrame calls
\* with any rebuilds, then cleanup, every object created is destroyed exactly
\* once, none twice, none is left and none is used after its destruction.
C34_DestroyedExactlyOnce ==
    /\ (Rebuilt /\ teardown.events # <<>>) => RebuildBalanced
    /\ (pc = "cleaned" /\ CleanedUp) =>
          /\ ObjectsOf(teardown.events, "destroy")
                = ObjectsOf(createInstance \o initVulkan(m_indices), "create")
          /\ \A i \in DOMAIN teardown.events : Once(teardown.events, teardown.events[i])
          /\ teardown.images = m_uniformBuffers
          /\ ~teardown.busy

-----------------------------------------------------------------------------
\* Startup that may stop part-way.  `steps` holds the creation calls made
\* so far by createInstance, main's surface creation and initVulkan; what
\* the created objects hold is the matter of the other specifications.

\* The creation calls of a complete startup, in order.
StartupCalls(indices) == createInstance \o initVulkan(indices)

\* The state the constructor leaves (Engine.cpp:36-50, Engine.hpp:123-124).
StartInit ==
    /\ pc = "constructed"
    /\ m_currentFrame = 0
    /\ m_framebufferResize = FALSE
    /\ m_windowExtent = <<1, 1>>
    /\ modelModified = FALSE
    /\ m_inFlightFences = [s \in Slots |-> FALSE]
    /\ m_imageAvailableSemaphore = [s \in Slots |-> FALSE]
    /\ m_renderFinishedSemaphore = [s \in Slots |-> FALSE]
    /\ m_swapchainData = [images |-> 0, imageViews |-> 0, framebuffers |-> 0]
    /\ m_commandBuffers = <<>>
    /\ m_commandBufferSecondary = <<>>
    /\ m_uniformBuffers = 0
    /\ imageIndex = 0
    /\ acquireResult = NoResult
    /\ submitResult = NoResult
    /\ presentResult = NoResult
    /\ queue = {}
    /\ acquirePending = {}
    /\ imageReady = [s \in Slots |-> FALSE]
    /\ rendered = [s \in Slots |-> FALSE]
    /\ trace = <<>>
    /\ calls = 0
    /\ entryFrame = 0
    /\ entryResize = FALSE
    /\ slotCmd = [s \in Slots |-> -1]
    /\ touch = NoTouch
    /\ m_isCleaned = TRUE
    /\ m_indices = NoIndices
    /\ teardown = NoTeardown
    /\ deviceCount = 0
    /\ deviceIndex = 0
    /\ device = NoDevice
    /\ suitIndices = NoIndices
    /\ m_physicalDevice = NoDevice
    /\ passedOver = FALSE
    /\ applied = NoChoice
    /\ m_graphicsQueue = Indeterminate
    /\ m_presentQueue = Indeterminate
    /\ m_transfertQueue = Indeterminate
    /\ m_commandPool = Indeterminate
    /\ m_commandPoolTransfert = Indeterminate
    /\ m_mesh = LoadedMesh
    /\ m_meshData = [vertexBuffer |-> Indeterminate, indexBuffer |-> Indeterminate]
    /\ stagingBuffer = VK_NULL_HANDLE
    /\ copy = NoCopy
    /\ steps = <<>>
    /\ m_resources = {}
    /\ m_size = 0

\* What the startup steps leave alone.
startFrame ==
    <<engineVars, syncVars, swapVars, localVars, gpuVars, callVars, ghostVars,
      teardown, selVars, queueVars, applied, poolVars, m_mesh, m_meshData,
      stagingBuffer, copy, memoryPoolVars>>

\* createInstance is entered: its first statement (line 198).
EnterCreateInstance ==
    /\ pc = "constructed"
    /\ m_isCleaned' = FALSE
    /\ pc' = "starting"
    /\ UNCHANGED <<startFrame, m_indices, steps>>

\* The next creation call of the startup succeeds.  The device is created
\* with the mapping of the selected device (line 331).
CreationSucceeds ==
    /\ pc = "starting"
    /\ Len(steps) < Len(StartupCalls(m_indices))
    /\ IF StartupCalls(m_indices)[Len(steps) + 1] = Create("m_logicalDevice")
         THEN m_indices' \in AcceptedIndices
         ELSE UNCHANGED m_indices
    /\ steps' = Append(steps, StartupCalls(m_indices')[Len(steps) + 1])
    /\ UNCHANGED <<startFrame, m_isCleaned, pc>>

\* The startup throws before its next creation call: a failed check
\* (lines 201-207, 321, VK_CALL) leaves createInstance, main or initVulkan.
CreationThrows ==
    /\ pc = "starting"
    /\ Len(steps) < Len(StartupCalls(m_indices))
    /\ pc' = "thrown"
    /\ UNCHANGED <<startFrame, m_isCleaned, m_indices, steps>>

\* initVulkan returns (line 161).
StartupReturns ==
    /\ pc = "starting"
    /\ Len(steps) = Len(StartupCalls(m_indices))
    /\ pc' = "idle"
    /\ UNCHANGED <<startFrame, m_isCleaned, m_indices, steps>>

StartNext ==
    \/ EnterCreateInstance
    \/ CreationSucceeds
    \/ CreationThrows
    \/ StartupReturns
    \/ MainCleanup
    \/ Destructor

StartSpec == StartInit /\ [][StartNext]_vars

\* C35: cleanup, called by main or by the destructor, makes no destruction
\* call for an object that has not been created, also when createInstance
\* or initVulkan stopped part-way with an error.
C35_DestroysOnlyCreated ==
    teardown.op = "cleanup" =>
        \A object \in ObjectsOf(teardown.events, "destroy") :
            object \in ObjectsOf(steps, "create")

-----------------------------------------------------------------------------
\* The buffer a frame submits.

\* What the secondary buffers refer to that a rebuild replaces (lines
\* 1131-1149).
ReferencedBySecondary == {"framebuffers", "m_renderPass", "m_graphicsPipeline"}

\* The secondary buffers a reallocation records refer to live objects: a
\* referenced kind the operation destroys is created again before them, and
\* the mesh buffers are not destroyed.
ReferencesLive(events) ==
    /\ \A kind \in ReferencedBySecondary :
          Occurs(events, Destroy(kind)) =>
              /\ Precedes(events, Destroy(kind), Create(kind))
              /\ Precedes(events, Create(kind), Create("m_commandBufferSecondary"))
    /\ ~Occurs(events, Destroy("m_vertexBuffer"))
    /\ ~Occurs(events, Destroy("m_indexBuffer"))
    /\ Occurs(events, Destroy("m_commandBufferSecondary")) =>
          Precedes(events, Destroy("m_commandBufferSecondary"),
                   Create("m_commandBufferSecondary"))

\* drawFrame has just submitted.
JustSubmitted == pc = "present"

LastIndexOf(seq, e) ==
    CHOOSE i \in DOMAIN seq : seq[i] = e /\ \A j \in DOMAIN seq : seq[j] = e => j <= i

\* C36: whenever drawFrame submits, the acquired image index denotes an
\* existing primary buffer recorded after the last creation of the command
\* buffers, and that buffer and its secondary buffer refer only to live
\* framebuffer, render pass, pipeline and mesh buffers.
C36_SubmitsCurrentBuffer ==
    /\ JustSubmitted =>
          /\ imageIndex \in DOMAIN m_commandBuffers
          /\ imageIndex \in DOMAIN m_commandBufferSecondary
          /\ m_commandBuffers[imageIndex] = "recorded"
          /\ m_commandBufferSecondary[imageIndex] = "recorded"
          /\ imageIndex < m_swapchainData.framebuffers
          /\ slotCmd[m_currentFrame] = imageIndex
          /\ Has("submit")
          /\ ~Has("recreateSwapChain")
          /\ Has("recreateCommandBuffer") =>
                LastIndexOf(trace, "recreateCommandBuffer") < LastIndexOf(trace, "record")
          /\ ~m_isCleaned
    /\ teardown.op \in {"recreateSwapChain", "recreateCommandBuffer"} =>
          ReferencesLive(teardown.events)

\* A frame submits the last image of a swapchain that a rebuild has made
\* larger than the first one.
C36_Witness ==
    /\ JustSubmitted
    /\ m_swapchainData.images > m_uniformBuffers
    /\ imageIndex = m_swapchainData.images - 1
    /\ calls >= 2

-----------------------------------------------------------------------------
\* The call aborted by an out-of-date acquire.

\* The first drawFrame call: it was entered in the state initVulkan leaves,
\* every fence signaled and every semaphore unsignaled (createSyncObjects,
\* lines 1232-1256).
FirstCallAborted ==
    /\ calls = 1
    /\ pc = "idle"
    /\ acquireResult = VK_ERROR_OUT_OF_DATE_KHR

\* C37: a drawFrame call aborted by an out-of-date acquire returns with the
\* frame slot index, the resize-pending flag and the signaled state of every
\* fence and semaphore as they were when the call was entered.
C37_AbortRestoresSync ==
    FirstCallAborted =>
        /\ m_currentFrame = entryFrame
        /\ m_framebufferResize = entryResize
        /\ m_inFlightFences = [s \in Slots |-> TRUE]
        /\ m_imageAvailableSemaphore = [s \in Slots |-> FALSE]
        /\ m_renderFinishedSemaphore = [s \in Slots |-> FALSE]

-----------------------------------------------------------------------------
\* MemoryPool: the resources carved out of one allocation.

\* Largest pool size explored.
MaxPoolSize == 4

\* VkDeviceSize is an unsigned 64-bit integer: its arithmetic wraps at 2^64.
\* The model wraps at a smaller power of two that is still far above every
\* pool size, so that a wrapped difference is a value no pool size reaches.
VkDeviceSizeRange == 1048576

VkDeviceSizeMax == VkDeviceSizeRange - 1

Minus(a, b) == (a - b + VkDeviceSizeRange) % VkDeviceSizeRange

Plus(a, b) == (a + b) % VkDeviceSizeRange

\* The sizes a caller asks for: none, some that fit, one above the pool, and
\* the largest value of the type.
RequestedSizes == (0 .. MaxPoolSize + 1) \cup {VkDeviceSizeMax}

\* A handle that points at no resource.
PRISMO_NULL_HANDLE == [offset |-> -1, size |-> -1]

\* The empty std::optional.
nullopt == -1

\* MemoryPoolResourceData, the element of the set.
MemoryPoolResourceData(offset, size) == [offset |-> offset, size |-> size]

\* The set orders its elements by offset and holds one element per offset.
Compare(a, b) == a.offset < b.offset

\* First element of the set in its order.
begin(resources) ==
    CHOOSE r \in resources : \A o \in resources : o = r \/ Compare(r, o)

\* std::set::insert: the element already stored under the same key wins; the
\* result is the set afterwards and the element the returned iterator is at.
insert(resources, data) ==
    IF \E r \in resources : r.offset = data.offset
    THEN [set |-> resources,
          first |-> CHOOSE r \in resources : r.offset = data.offset]
    ELSE [set |-> resources \cup {data}, first |-> data]

\* std::set::erase by key.
erase(resources, data) == {r \in resources : r.offset # data.offset}

\* The std::find_if of findSlotAvailableForSize with its capturing lambda:
\* the value of potentialOffset when the scan stops.
RECURSIVE find_if(_, _, _)
find_if(resources, potentialOffset, resourceSize) ==
    IF resources = {} THEN potentialOffset
    ELSE LET resourceData == begin(resources)
         IN  IF Minus(resourceData.offset, potentialOffset) >= resourceSize
             THEN potentialOffset
             ELSE find_if(resources \ {resourceData},
                          Plus(resourceData.offset, resourceData.size),
                          resourceSize)

findSlotAvailableForSize_NoEndCheck(resourceSize, memoryPoolSize) ==
    find_if(m_resources, 0, resourceSize)

\* MemoryPool.cpp:149-168.
findSlotAvailableForSize(resourceSize, memoryPoolSize) ==
    LET potentialOffset == find_if(m_resources, 0, resourceSize)
    IN  IF Minus(memoryPoolSize, potentialOffset) >= resourceSize
        THEN potentialOffset
        ELSE nullopt

\* The state after allocatePool: a pool of some size with no resource.
PoolInit ==
    /\ pc = "constructed"
    /\ m_currentFrame = 0
    /\ m_framebufferResize = FALSE
    /\ m_windowExtent = <<1, 1>>
    /\ modelModified = FALSE
    /\ m_inFlightFences = [s \in Slots |-> FALSE]
    /\ m_imageAvailableSemaphore = [s \in Slots |-> FALSE]
    /\ m_renderFinishedSemaphore = [s \in Slots |-> FALSE]
    /\ m_swapchainData = [images |-> 0, imageViews |-> 0, framebuffers |-> 0]
    /\ m_commandBuffers = <<>>
    /\ m_commandBufferSecondary = <<>>
    /\ m_uniformBuffers = 0
    /\ imageIndex = 0
    /\ acquireResult = NoResult
    /\ submitResult = NoResult
    /\ presentResult = NoResult
    /\ queue = {}
    /\ acquirePending = {}
    /\ imageReady = [s \in Slots |-> FALSE]
    /\ rendered = [s \in Slots |-> FALSE]
    /\ trace = <<>>
    /\ calls = 0
    /\ entryFrame = 0
    /\ entryResize = FALSE
    /\ slotCmd = [s \in Slots |-> -1]
    /\ touch = NoTouch
    /\ m_isCleaned = TRUE
    /\ m_indices = NoIndices
    /\ teardown = NoTeardown
    /\ deviceCount = 0
    /\ deviceIndex = 0
    /\ device = NoDevice
    /\ suitIndices = NoIndices
    /\ m_physicalDevice = NoDevice
    /\ passedOver = FALSE
    /\ applied = NoChoice
    /\ m_graphicsQueue = Indeterminate
    /\ m_presentQueue = Indeterminate
    /\ m_transfertQueue = Indeterminate
    /\ m_commandPool = Indeterminate
    /\ m_commandPoolTransfert = Indeterminate
    /\ m_mesh = LoadedMesh
    /\ m_meshData = [vertexBuffer |-> Indeterminate, indexBuffer |-> Indeterminate]
    /\ stagingBuffer = VK_NULL_HANDLE
    /\ copy = NoCopy
    /\ steps = <<>>
    /\ m_resources = {}
    /\ m_size \in 1 .. MaxPoolSize

\* What the pool's operations leave alone.
poolFrame ==
    <<pc, engineVars, syncVars, swapVars, localVars, gpuVars, callVars, ghostVars,
      m_isCleaned, m_indices, selVars, teardown, queueVars, poolVars, uploadVars,
      m_size>>

\* MemoryPool::createResource, lines 84-92.
createResource ==
    \E size \in RequestedSizes :
        LET resourceOffset == findSlotAvailableForSize(size, m_size)
            inserted == insert(m_resources,
                               MemoryPoolResourceData(resourceOffset, size))
            resource == IF resourceOffset # nullopt THEN inserted.first
                        ELSE PRISMO_NULL_HANDLE
        IN  /\ m_resources' = IF resourceOffset # nullopt THEN inserted.set
                              ELSE m_resources
            /\ applied' = Application("createResource",
                                      [size |-> size, resources |-> m_resources],
                                      resource)
            /\ UNCHANGED poolFrame

\* MemoryPool::destroyResource, lines 105-108, for a handle to a resource of
\* the pool.
destroyResource ==
    \E resource \in m_resources :
        /\ m_resources' = erase(m_resources, resource)
        /\ applied' = Application("destroyResource",
                                  [resource |-> resource, resources |-> m_resources],
                                  PRISMO_NULL_HANDLE)
        /\ UNCHANGED poolFrame

PoolNext == createResource \/ destroyResource

PoolSpec == PoolInit /\ [][PoolNext]_vars

\* The bytes [offset, offset + size) of a resource.
Bytes(r) == {b \in 0 .. MaxPoolSize + 2 : r.offset <= b /\ b < r.offset + r.size}

Overlap(a, b) == Bytes(a) \cap Bytes(b) # {}

\* A free gap of the size exists: some range of that many bytes lies inside
\* the pool and meets no resource.
FreeGap(size, resources, poolSize) ==
    \E offset \in 0 .. poolSize :
        /\ offset + size <= poolSize
        /\ \A r \in resources :
               offset + size <= r.offset \/ r.offset + r.size <= offset

\* C38: after any sequence of createResource and destroyResource calls on a
\* pool of size S, every resource of the pool lies inside [0, S) and no two of
\* them overlap; and a createResource call made when no free gap of the
\* requested size exists returned the null handle and left the resources as
\* they were.
C38_ResourcesDisjointInPool ==
    /\ \A r \in m_resources :
           r.offset >= 0 /\ r.size >= 0 /\ r.offset + r.size <= m_size
    /\ \A a, b \in m_resources : a # b => ~Overlap(a, b)
    /\ (/\ applied.function = "createResource"
        /\ ~FreeGap(applied.input.size, applied.input.resources, m_size))
       => /\ applied.result = PRISMO_NULL_HANDLE
          /\ m_resources = applied.input.resources

\* A request that found no gap between two resources of a pool they fill.
C38_Witness ==
    /\ applied.function = "createResource"
    /\ applied.result = PRISMO_NULL_HANDLE
    /\ applied.input.size \in 1 .. m_size
    /\ Cardinality(m_resources) >= 2

\* C39: a non-null handle returned by createResource, for every requested
\* size including 0, is a resource of the requested size that the call
\* inserted and that was not in the pool before, so that erasing it gives
\* back exactly the resources that were there before the call.
C39_HandleIsNewResource ==
    (applied.function = "createResource" /\ applied.result # PRISMO_NULL_HANDLE)
    => /\ applied.result \notin applied.input.resources
       /\ applied.result.size = applied.input.size
       /\ applied.result \in m_resources
       /\ erase(m_resources, applied.result) = applied.input.resources

====
